---------------------------- MODULE Spec2Model ----------------------------
(***************************************************************************)
(* Model of the ai-visibility content analyzer                             *)
(* (src/src/analyzer/content-analyzer.ts).                                 *)
(*                                                                         *)
(* A document is what cheerio.load(html) yields, abstracted to the         *)
(* features the six checks query: a head (JSON-LD scripts, meta tags) and  *)
(* a body whose elements are leaves (headings, paragraphs, links) or       *)
(* one-level containers (main, div, footer) holding leaves.  A text is     *)
(* abstracted to the length of its leading white space (lead), the length  *)
(* of its trimmed content (core), an identity of the first 50 characters   *)
(* of its trimmed content (key) and the matches of the regular             *)
(* expressions the checks run on it.                                       *)
(***************************************************************************)
EXTENDS Integers, Sequences, FiniteSets, TLC

VARIABLES options, html, calls, result, prev, clients,
          robots, express, logger

vars == <<options, html, calls, result, prev, clients,
          robots, express, logger>>

\* The state of the other classes of the package: a RobotsGenerator, an
\* express request on its way through the middleware chain, an
\* AIVisitorLogger.  Each is <<>> in a behaviour that constructs none.
others == <<robots, express, logger>>

NoOthers == robots = <<>> /\ express = <<>> /\ logger = <<>>

-----------------------------------------------------------------------------
(* Bounds of the model *)

MaxTop == 2        \* top-level body elements in a document of GeneralDocs
MaxCalls == 2      \* analyze() calls made on the instance in one behaviour
MaxHeadings == 4   \* headings in a document of HeadingDocs
MaxParas == 2      \* paragraphs in a document of FactDocs
MaxAnswerTop == 3  \* top-level body elements in a document of AnswerDocs
MaxFacts == 3      \* fact tokens in one paragraph of FactDocs
MaxSections == 40  \* h2/h3 sections in a document of SnippetDocs
MaxScripts == 3    \* JSON-LD blocks in a document of SchemaDocs
MaxClients == 2    \* callers that share one analyzer instance
MaxBots == 2       \* entries in the allowAI and blockAI lists
MaxChain == 2      \* middlewares mounted in front of the route handler
MaxLogs == 3       \* log() calls made on one AIVisitorLogger
MaxVisits == 40    \* visits of one bot found in the log file

-----------------------------------------------------------------------------
(* Generic helpers *)

RECURSIVE SumSeq(_)
SumSeq(s) == IF s = <<>> THEN 0 ELSE Head(s) + SumSeq(Tail(s))

Max(a, b) == IF a >= b THEN a ELSE b

Min(a, b) == IF a <= b THEN a ELSE b

RECURSIVE Flatten(_)
Flatten(ss) == IF ss = <<>> THEN <<>> ELSE Head(ss) \o Flatten(Tail(ss))

\* Math.round on a non-negative rational num/den: round half up.
\* The weighted sum and the fact rate of the analyzer are computed in
\* doubles; for every breakdown the checks can produce the double result
\* rounds to the same integer as the exact rational (checked exhaustively).
Round(num, den) == (2 * num + den) \div (2 * den)

-----------------------------------------------------------------------------
(* The parsed document *)

\* A body element.  kids is non-empty only for containers.
Node(tag, key, lead, core, ans, words, facts, marks, kids) ==
    [tag |-> tag, key |-> key, lead |-> lead, core |-> core, ans |-> ans,
     words |-> words, facts |-> facts, marks |-> marks, kids |-> kids]

\* A head element: a JSON-LD script or a meta tag.
\*   json: "valid"   parses to an object with @context and @type
\*         "partial" parses, but @context or @type is missing or falsy
\*         "null"    parses to null (property access throws in the try block)
\*         "bad"     JSON.parse throws
\*         "none"    not a JSON-LD script
HeadEl(tag, json, types, marks) ==
    [tag |-> tag, json |-> json, types |-> types, marks |-> marks]

Heading(level, key, core) ==
    Node(level, key, 0, core, FALSE, 0, 0, {}, <<>>)

Para(key, lead, core, ans, words, facts, marks) ==
    Node("p", key, lead, core, ans, words, facts, marks, <<>>)

Box(tag, marks, kids) == Node(tag, 0, 0, 0, FALSE, 0, 0, marks, kids)

\* Length of the text of an element as text() returns it.
RECURSIVE RawLen(_)
RawLen(n) ==
    IF n.kids = <<>> THEN n.lead + n.core
    ELSE SumSeq([j \in 1..Len(n.kids) |-> RawLen(n.kids[j])])

\* Length of text().trim() of an element.
TrimLen(n) ==
    IF n.kids = <<>> THEN n.core
    ELSE LET full == {j \in 1..Len(n.kids) : n.kids[j].core > 0}
         IN IF full = {} THEN 0
            ELSE LET a == CHOOSE j \in full : \A k \in full : j <= k
                     b == CHOOSE j \in full : \A k \in full : j >= k
                 IN SumSeq([j \in 1..(b - a + 1) |-> RawLen(n.kids[a + j - 1])])
                    - n.kids[a].lead

\* All body elements in document order.  top is the index of the top-level
\* element, sub the index inside it (0 for the top-level element itself),
\* off the offset of the element's text in $('body').text().
TopOff(body, i) == SumSeq([k \in 1..(i - 1) |-> RawLen(body[k])])

KidOff(body, i, j) ==
    TopOff(body, i) + SumSeq([k \in 1..(j - 1) |-> RawLen(body[i].kids[k])])

Elems(body) ==
    Flatten([i \in 1..Len(body) |->
        <<[n |-> body[i], top |-> i, sub |-> 0, off |-> TopOff(body, i)]>>
        \o [j \in 1..Len(body[i].kids) |->
               [n |-> body[i].kids[j], top |-> i, sub |-> j,
                off |-> KidOff(body, i, j)]]])

\* const $ = cheerio.load(html): the parsed document the checks query, with
\* the head elements, the body elements in document order and the length of
\* $('body').text().
Load(doc) ==
    [head |-> doc.head,
     elems |-> Elems(doc.body),
     len |-> SumSeq([i \in 1..Len(doc.body) |-> RawLen(doc.body[i])])]

\* $(selector): the elements with one of the tags, in document order.
Select(dom, tags) == SelectSeq(dom.elems, LAMBDA e : e.n.tag \in tags)

\* $('body').text().length
BodyLen(dom) == dom.len

\* The siblings that follow element e, in order.
NextAll(dom, e) ==
    IF e.sub = 0
    THEN SelectSeq(dom.elems, LAMBDA x : x.sub = 0 /\ x.top > e.top)
    ELSE SelectSeq(dom.elems, LAMBDA x : x.top = e.top /\ x.sub > e.sub)

\* The descendants of element e, in order.
Find(dom, e) ==
    SelectSeq(dom.elems, LAMBDA x : x.top = e.top /\ x.sub > 0 /\ e.sub = 0)

-----------------------------------------------------------------------------
(* Issues *)

\* An AnalysisIssue: its type, severity and message.  a and b are the values
\* interpolated into the message (a count, heading levels, the identity of a
\* heading text); the fix text is determined by the message.
Issue(type, severity, message, a, b) ==
    [type |-> type, severity |-> severity, message |-> message,
     a |-> a, b |-> b]

Outcome(score, issues) == [score |-> score, issues |-> issues]

-----------------------------------------------------------------------------
(* checkAnswerFrontLoading *)

\* $('main, article, [role="main"], .content, #content')
IsMainContent(n) == n.tag \in {"main", "article"} \/ "content" \in n.marks

MainContent(dom) == SelectSeq(dom.elems, LAMBDA e : IsMainContent(e.n))

\* A selection that falls back to the heading's siblings when the container
\* holds no paragraph.
FirstPFallback(dom) ==
    LET main == MainContent(dom)
        h1 == Select(dom, {"h1"})
        inMain == IF main # <<>>
                  THEN SelectSeq(Find(dom, main[1]), LAMBDA e : e.n.tag = "p")
                  ELSE <<>>
        ps == IF inMain # <<>> THEN inMain
              ELSE SelectSeq(NextAll(dom, h1[1]), LAMBDA e : e.n.tag = "p")
    IN IF ps = <<>> THEN <<>> ELSE <<ps[1]>>

\* The opening paragraph, as a sequence of at most one element.
FirstP(dom) ==
    LET main == MainContent(dom)
        h1 == Select(dom, {"h1"})
        ps == IF main # <<>>
              THEN SelectSeq(Find(dom, main[1]), LAMBDA e : e.n.tag = "p")
              ELSE SelectSeq(NextAll(dom, h1[1]), LAMBDA e : e.n.tag = "p")
    IN IF ps = <<>> THEN <<>> ELSE <<ps[1]>>

\* allText.indexOf(firstPText.slice(0, 50)): the offset in the body text of
\* the FIRST text that starts with the first 50 characters of the trimmed
\* paragraph, which is the paragraph itself only if no earlier text starts
\* the same way.
FirstPPosition(dom, p) ==
    LET same == SelectSeq(dom.elems,
                    LAMBDA e : e.n.kids = <<>> /\ e.n.core > 0
                               /\ e.n.key = p.n.key)
    IN same[1].off + same[1].n.lead

\* A check that grants all 100 points to a well-placed answer.
checkAnswerFrontLoadingFull(dom) ==
    LET h1 == Select(dom, {"h1"})
    IN IF h1 = <<>>
       THEN Outcome(0, <<Issue("answer-placement", "high",
                               "No H1 tag found on the page", 0, 0)>>)
       ELSE
       LET firstP == FirstP(dom)
           firstPLen == IF firstP = <<>> THEN 0 ELSE firstP[1].n.core
       IN IF firstPLen = 0 \/ firstPLen < 30
          THEN Outcome(20, <<Issue("answer-placement", "high",
                          "No substantive paragraph found after H1", 0, 0)>>)
          ELSE
          LET hasDirectAnswer == firstP[1].n.ans
              allTextLen == BodyLen(dom)
              firstPPosition == FirstPPosition(dom, firstP[1])
          IN IF ~hasDirectAnswer
             THEN Outcome(55, <<Issue("answer-placement", "medium",
                     "First paragraph may not directly answer the page topic",
                     0, 0)>>)
             ELSE IF 5 * firstPPosition > allTextLen
             THEN Outcome(65, <<Issue("answer-placement", "medium",
                     "Main answer appears too far down the page", 0, 0)>>)
             ELSE Outcome(100, <<>>)

checkAnswerFrontLoading(dom) ==
    LET h1 == Select(dom, {"h1"})
    IN IF h1 = <<>>
       THEN Outcome(0, <<Issue("answer-placement", "high",
                               "No H1 tag found on the page", 0, 0)>>)
       ELSE
       LET firstP == FirstP(dom)
           firstPLen == IF firstP = <<>> THEN 0 ELSE firstP[1].n.core
       IN IF firstPLen = 0 \/ firstPLen < 30
          THEN Outcome(20, <<Issue("answer-placement", "high",
                          "No substantive paragraph found after H1", 0, 0)>>)
          ELSE
          LET hasDirectAnswer == firstP[1].n.ans
              allTextLen == BodyLen(dom)
              firstPPosition == FirstPPosition(dom, firstP[1])
          IN IF ~hasDirectAnswer
             THEN Outcome(55, <<Issue("answer-placement", "medium",
                     "First paragraph may not directly answer the page topic",
                     0, 0)>>)
             \* positionRatio > 0.2, positionRatio = position / length
             ELSE IF 5 * firstPPosition > allTextLen
             THEN Outcome(65, <<Issue("answer-placement", "medium",
                     "Main answer appears too far down the page", 0, 0)>>)
             ELSE Outcome(95, <<>>)

-----------------------------------------------------------------------------
(* checkFactDensity *)

\* FactOutcome with the upper threshold taken inclusive (>= 10).
FactOutcomeInclusive(totalWords, verifiableFacts) ==
    IF totalWords = 0
    THEN Outcome(0, <<Issue("fact-density", "high",
                            "No paragraph content found", 0, 0)>>)
    ELSE IF 100 * verifiableFacts < 2 * totalWords
    THEN Outcome(25, <<Issue("fact-density", "high",
                             "Very low fact density", 0, 0)>>)
    ELSE IF 100 * verifiableFacts < 4 * totalWords
    THEN Outcome(60, <<Issue("fact-density", "medium",
                             "Below-target fact density", 0, 0)>>)
    ELSE IF 100 * verifiableFacts >= 10 * totalWords
    THEN Outcome(75, <<Issue("fact-density", "low",
                             "Very high fact density", 0, 0)>>)
    ELSE Outcome(95, <<>>)

\* The thresholds on factsPerHundred = (verifiableFacts / totalWords) * 100.
\* The comparisons are made on the exact rate: the double rate falls on the
\* same side of 2, 4 and 10 as the exact one.
FactOutcome(totalWords, verifiableFacts) ==
    IF totalWords = 0
    THEN Outcome(0, <<Issue("fact-density", "high",
                            "No paragraph content found", 0, 0)>>)
    ELSE IF 100 * verifiableFacts < 2 * totalWords
    THEN Outcome(25, <<Issue("fact-density", "high",
                             "Very low fact density", 0, 0)>>)
    ELSE IF 100 * verifiableFacts < 4 * totalWords
    THEN Outcome(60, <<Issue("fact-density", "medium",
                             "Below-target fact density", 0, 0)>>)
    ELSE IF 100 * verifiableFacts > 10 * totalWords
    THEN Outcome(75, <<Issue("fact-density", "low",
                             "Very high fact density", 0, 0)>>)
    ELSE Outcome(95, <<>>)

\* A fact check without the guard for a page that holds no word: the rate
\* 0 / 0 is NaN, every comparison with it is false and the last branch is
\* taken.
checkFactDensityUnguarded(dom) ==
    LET paragraphs == Select(dom, {"p"})
        totalWords ==
            SumSeq([i \in 1..Len(paragraphs) |-> paragraphs[i].n.words])
        verifiableFacts ==
            SumSeq([i \in 1..Len(paragraphs) |-> paragraphs[i].n.facts])
    IN IF totalWords = 0
       THEN Outcome(95, <<>>)
       ELSE FactOutcome(totalWords, verifiableFacts)

checkFactDensity(dom) ==
    LET paragraphs == Select(dom, {"p"})
        totalWords ==
            SumSeq([i \in 1..Len(paragraphs) |-> paragraphs[i].n.words])
        verifiableFacts ==
            SumSeq([i \in 1..Len(paragraphs) |-> paragraphs[i].n.facts])
    IN FactOutcome(totalWords, verifiableFacts)

-----------------------------------------------------------------------------
(* checkHeadingStructure *)

\* parseInt(el.tagName.replace('h', ''), 10)
Level(tag) ==
    CASE tag = "h1" -> 1 [] tag = "h2" -> 2 [] tag = "h3" -> 3 [] tag = "h4" -> 4

\* SkipIssues comparing against the level that was expected after a skip
\* instead of the level of the preceding heading.
RECURSIVE SkipIssuesExpected(_, _)
SkipIssuesExpected(hs, lastLevel) ==
    IF hs = <<>> THEN <<>>
    ELSE LET level == Level(Head(hs).n.tag)
         IN IF level > lastLevel + 1
            THEN <<Issue("heading-structure", "low",
                         "Heading level skipped", lastLevel, level)>>
                 \o SkipIssuesExpected(Tail(hs), lastLevel + 1)
            ELSE SkipIssuesExpected(Tail(hs), level)

\* The loop over $('h1, h2, h3, h4'): the issues for skipped levels.
RECURSIVE SkipIssues(_, _)
SkipIssues(hs, lastLevel) ==
    IF hs = <<>> THEN <<>>
    ELSE LET level == Level(Head(hs).n.tag)
         IN (IF level > lastLevel + 1
             THEN <<Issue("heading-structure", "low",
                          "Heading level skipped", lastLevel, level)>>
             ELSE <<>>)
            \o SkipIssues(Tail(hs), level)

\* EmptyIssues reporting empty headings once instead of once per heading.
EmptyIssuesOnce(hs) ==
    IF \E i \in 1..Len(hs) : TrimLen(hs[i].n) = 0
    THEN <<Issue("heading-structure", "medium", "Empty heading tag found",
                 0, 0)>>
    ELSE <<>>

\* The loop over $('h1, h2, h3'): the issues for empty headings.
EmptyIssues(hs) ==
    LET empty == SelectSeq(hs, LAMBDA e : TrimLen(e.n) = 0)
    IN [i \in 1..Len(empty) |->
           Issue("heading-structure", "medium", "Empty heading tag found",
                 0, 0)]

\* HeadingScore without the floor at 0.
HeadingScoreNoFloor(penalty) == 100 - penalty

\* let score = 100; score -= penalty ...; Math.max(0, score)
HeadingScore(penalty) == Max(0, 100 - penalty)

checkHeadingStructure(dom) ==
    LET h1Count == Len(Select(dom, {"h1"}))
        h2s == Select(dom, {"h2"})
        h3s == Select(dom, {"h3"})
        one == IF h1Count = 0
               THEN <<Issue("heading-structure", "high", "Missing H1 tag",
                            0, 0)>>
               ELSE IF h1Count > 1
               THEN <<Issue("heading-structure", "medium",
                            "Multiple H1 tags found", h1Count, 0)>>
               ELSE <<>>
        p1 == IF h1Count = 0 THEN 40 ELSE IF h1Count > 1 THEN 20 ELSE 0
        h3NoH2 == Len(h3s) > 0 /\ Len(h2s) = 0
        two == IF h3NoH2
               THEN <<Issue("heading-structure", "medium",
                            "H3 tags used without any H2 tags", 0, 0)>>
               ELSE <<>>
        p2 == IF h3NoH2 THEN 20 ELSE 0
        skips == SkipIssues(Select(dom, {"h1", "h2", "h3", "h4"}), 1)
        empties == EmptyIssues(Select(dom, {"h1", "h2", "h3"}))
    IN Outcome(HeadingScore(p1 + p2 + 10 * Len(skips) + 10 * Len(empties)),
               one \o two \o skips \o empties)

-----------------------------------------------------------------------------
(* checkEEAT *)

\* marks of an element: the attribute selectors and text patterns it matches
\*   "author"  [itemtype*="Person"], [itemprop="author"], meta[name="author"],
\*             .author, [rel="author"]
\*   "byline"  its text matches /written by|by [A-Z][a-z]+ [A-Z][a-z]+/i
\*   "org"     [itemtype*="Organization"], [itemprop="publisher"],
\*             meta[property="og:site_name"]
\*   "contact" a[href^="mailto:"], a[href^="tel:"], [role="contentinfo"]
\*             (a footer element matches by its tag)
\*   "trust"   its text matches one of the trustSignals patterns
\*   "content" [role="main"], .content, #content
Marked(dom, m) ==
    \/ \E i \in 1..Len(dom.head) : m \in dom.head[i].marks
    \/ \E i \in 1..Len(dom.elems) : m \in dom.elems[i].n.marks

\* BodyTextHas with a pattern object that is shared between calls and keeps
\* its lastIndex: every other call starts matching behind the text.
BodyTextHasSticky(dom, m) ==
    LET es == dom.elems
    IN /\ calls % 2 = 0
       /\ \E i \in 1..Len(es) :
              es[i].n.kids = <<>> /\ RawLen(es[i].n) > 0
              /\ m \in es[i].n.marks

\* A pattern matched against $('body').text()
BodyTextHas(dom, m) ==
    LET es == dom.elems
    IN \E i \in 1..Len(es) :
           es[i].n.kids = <<>> /\ RawLen(es[i].n) > 0 /\ m \in es[i].n.marks

\* A check that returns at the first signal it misses.
checkEEATFirstMiss(dom) ==
    LET hasAuthor == Marked(dom, "author") \/ BodyTextHas(dom, "byline")
        hasOrg == Marked(dom, "org")
        hasContact == Marked(dom, "contact")
                      \/ Select(dom, {"footer"}) # <<>>
        hasTrustSignals == BodyTextHas(dom, "trust")
        pts(b) == IF b THEN 25 ELSE 0
        score == pts(hasAuthor) + pts(hasOrg) + pts(hasContact)
                 + pts(hasTrustSignals)
        first ==
            IF ~hasAuthor
            THEN <<Issue("eeat", "medium",
                         "No author information detected", 0, 0)>>
            ELSE IF ~hasOrg
            THEN <<Issue("eeat", "low",
                         "No organization/publisher markup found", 0, 0)>>
            ELSE IF ~hasContact
            THEN <<Issue("eeat", "medium",
                         "No contact information found", 0, 0)>>
            ELSE IF ~hasTrustSignals
            THEN <<Issue("eeat", "low",
                         "No expertise/trust signals detected", 0, 0)>>
            ELSE <<>>
    IN Outcome(Min(score, 100), first)

checkEEAT(dom) ==
    LET hasAuthor == Marked(dom, "author") \/ BodyTextHas(dom, "byline")
        hasOrg == Marked(dom, "org")
        hasContact == Marked(dom, "contact")
                      \/ Select(dom, {"footer"}) # <<>>
        hasTrustSignals == BodyTextHas(dom, "trust")
        pts(b) == IF b THEN 25 ELSE 0
        miss(b, sev, msg) ==
            IF b THEN <<>> ELSE <<Issue("eeat", sev, msg, 0, 0)>>
        score == pts(hasAuthor) + pts(hasOrg) + pts(hasContact)
                 + pts(hasTrustSignals)
    IN Outcome(Min(score, 100),
               miss(hasAuthor, "medium", "No author information detected")
               \o miss(hasOrg, "low",
                       "No organization/publisher markup found")
               \o miss(hasContact, "medium", "No contact information found")
               \o miss(hasTrustSignals, "low",
                       "No expertise/trust signals detected"))

-----------------------------------------------------------------------------
(* checkSnippability *)

\* nextEl.text().trim().length of the element that follows heading e
NextTextLen(dom, e) ==
    LET sibs == NextAll(dom, e)
    IN IF sibs = <<>> THEN 0 ELSE TrimLen(sibs[1].n)

\* The percentages k for which the double (x * 100), x the double nearest to
\* (2k + 1) / 200, falls below k + 0.5: 14.499999999999998,
\* 28.499999999999996, 56.49999999999999 and 57.49999999999999.  The other
\* 96 products are k + 0.5 exactly.
HalfLost == {14, 28, 56, 57}

\* Math.round((snippableCount / totalChecked) * 100) in double arithmetic.
\* A quotient that is not half way between two percentages lies at least
\* 1 / (2 * totalChecked) from the half, far beyond the error of the two
\* double operations, and rounds as the exact value does; a quotient that
\* is half way rounds up unless the product falls below the half.
RoundPercent(snippableCount, totalChecked) ==
    LET twice == (200 * snippableCount) \div totalChecked
        half == (200 * snippableCount) % totalChecked = 0 /\ twice % 2 = 1
    IN IF half /\ (twice - 1) \div 2 \in HalfLost
       THEN (twice - 1) \div 2
       ELSE Round(100 * snippableCount, totalChecked)

checkSnippability(dom) ==
    LET headings == Select(dom, {"h2", "h3"})
    IN IF Len(headings) = 0
       THEN Outcome(30, <<Issue("snippability", "medium",
                                "No H2/H3 subheadings found", 0, 0)>>)
       ELSE
       LET thin == SelectSeq(headings,
                             LAMBDA e : ~(NextTextLen(dom, e) >= 80))
           totalChecked == Len(headings)
           snippableCount == totalChecked - Len(thin)
       IN Outcome(RoundPercent(snippableCount, Max(totalChecked, 1)),
                  [i \in 1..Len(thin) |->
                      Issue("snippability", "low",
                            "Section has insufficient content below it",
                            thin[i].n.key, 0)])

-----------------------------------------------------------------------------
(* checkSchemaCoverage *)

\* A selection that leaves out the blocks whose content is not JSON.
SchemaScriptsParsed(dom) ==
    SelectSeq(dom.head, LAMBDA h : h.tag = "script" /\ h.json # "bad")

\* $('script[type="application/ld+json"]')
SchemaScripts(dom) == SelectSeq(dom.head, LAMBDA h : h.tag = "script")

\* A check that grants half of the points to a page without any JSON-LD
\* block.
checkSchemaCoverageHalf(dom) ==
    LET outcome == IF Len(SchemaScripts(dom)) = 0
                   THEN Outcome(50, <<Issue("schema", "high",
                                "No JSON-LD structured data found", 0, 0)>>)
                   ELSE Outcome(100, <<>>)
    IN outcome

checkSchemaCoverage(dom) ==
    LET schemaScripts == SchemaScripts(dom)
    IN IF Len(schemaScripts) = 0
       THEN Outcome(0, <<Issue("schema", "high",
                               "No JSON-LD structured data found", 0, 0)>>)
       ELSE
       LET thrown == SelectSeq(schemaScripts,
                               LAMBDA h : h.json \in {"bad", "null"})
           parseIssues == [i \in 1..Len(thrown) |->
                              Issue("schema", "medium",
                                    "Invalid JSON-LD schema found (parse error)",
                                    0, 0)]
           validSchemas ==
               Len(SelectSeq(schemaScripts, LAMBDA h : h.json = "valid"))
       IN IF validSchemas = 0
          THEN Outcome(10, parseIssues)
          ELSE
          LET hasFAQ == \E i \in 1..Len(schemaScripts) :
                            "FAQPage" \in schemaScripts[i].types
              hasOrg == \E i \in 1..Len(schemaScripts) :
                            "Organization" \in schemaScripts[i].types
          IN Outcome(IF hasFAQ /\ hasOrg THEN 100
                     ELSE IF hasFAQ \/ hasOrg THEN 75 ELSE 50,
                     parseIssues
                     \o (IF ~hasFAQ
                         THEN <<Issue("schema", "low",
                                      "No FAQPage schema found", 0, 0)>>
                         ELSE <<>>)
                     \o (IF ~hasOrg
                         THEN <<Issue("schema", "low",
                                      "No Organization schema found", 0, 0)>>
                         ELSE <<>>))

-----------------------------------------------------------------------------
(* generateRecommendations *)

\* Recommendations whose thresholds include the bound itself.
generateRecommendationsInclusive(breakdown) ==
    LET rec(b, text) == IF b THEN <<text>> ELSE <<>>
        recs == rec(breakdown.answerFrontLoading <= 70,
                    "Front-load your answers")
                \o rec(breakdown.factDensity <= 60, "Add more data")
                \o rec(breakdown.headingStructure <= 80,
                       "Fix heading hierarchy")
                \o rec(breakdown.eeatSignals <= 60, "Boost E-E-A-T")
                \o rec(breakdown.snippability <= 70, "Improve snippability")
                \o rec(breakdown.schemaCoverage <= 50, "Add structured data")
    IN IF Len(recs) = 0 THEN <<"Great job">> ELSE recs

generateRecommendations(breakdown) ==
    LET rec(b, text) == IF b THEN <<text>> ELSE <<>>
        recs == rec(breakdown.answerFrontLoading < 70,
                    "Front-load your answers")
                \o rec(breakdown.factDensity < 60, "Add more data")
                \o rec(breakdown.headingStructure < 80,
                       "Fix heading hierarchy")
                \o rec(breakdown.eeatSignals < 60, "Boost E-E-A-T")
                \o rec(breakdown.snippability < 70, "Improve snippability")
                \o rec(breakdown.schemaCoverage < 50, "Add structured data")
    IN IF Len(recs) = 0 THEN <<"Great job">> ELSE recs

-----------------------------------------------------------------------------
(* The constructor and analyze *)

Flags == {"checkAnswerPlacement", "checkFactDensity", "checkHeadingStructure",
          "checkEEAT", "checkSnippability", "checkSchema"}

DEFAULT_OPTIONS == [k \in Flags |-> "true"]

\* { ...DEFAULT_OPTIONS, ...options }: an own property of the argument
\* replaces the default.
Constructor(arg) ==
    [k \in Flags |-> IF k \in DOMAIN arg THEN arg[k] ELSE DEFAULT_OPTIONS[k]]

\* The truthiness test of if (this.options.flag)
Truthy(v) == v = "true"

\* order = { high: 0, medium: 1, low: 2 }
order(severity) ==
    CASE severity = "high" -> 0 [] severity = "medium" -> 1
      [] severity = "low" -> 2

\* Compare with its operands exchanged.
CompareReversed(x, y) == order(y.severity) - order(x.severity)

\* The comparator of issues.sort
Compare(x, y) == order(x.severity) - order(y.severity)

\* InsertSorted placing an element before the elements it compares equal to.
RECURSIVE InsertUnstable(_, _)
InsertUnstable(x, s) ==
    IF s = <<>> THEN <<x>>
    ELSE IF order(Head(s).severity) - order(x.severity) >= 0 THEN <<x>> \o s
    ELSE <<Head(s)>> \o InsertUnstable(x, Tail(s))

\* Array.prototype.sort with a comparator is a stable sort: an element is
\* placed behind every element that does not compare greater than it.
RECURSIVE InsertSorted(_, _)
InsertSorted(x, s) ==
    IF s = <<>> THEN <<x>>
    ELSE IF Compare(Head(s), x) > 0 THEN <<x>> \o s
    ELSE <<Head(s)>> \o InsertSorted(x, Tail(s))

RECURSIVE Sort(_)
Sort(s) ==
    IF s = <<>> THEN <<>>
    ELSE InsertSorted(s[Len(s)], Sort(SubSeq(s, 1, Len(s) - 1)))

\* Run ignoring the flag.
RunAlways(opts, flag, outcome) == outcome

\* The six checks in the order analyze runs them, with the option that
\* enables each and the breakdown field it fills.
Run(opts, flag, outcome) ==
    IF Truthy(opts[flag]) THEN outcome ELSE Outcome(100, <<>>)

\* The snippability check run under the flag of the E-E-A-T check.
ChecksCrossed(opts, dom) ==
    <<Run(opts, "checkAnswerPlacement", checkAnswerFrontLoading(dom)),
      Run(opts, "checkFactDensity", checkFactDensity(dom)),
      Run(opts, "checkHeadingStructure", checkHeadingStructure(dom)),
      Run(opts, "checkEEAT", checkEEAT(dom)),
      Run(opts, "checkEEAT", checkSnippability(dom)),
      Run(opts, "checkSchema", checkSchemaCoverage(dom))>>

\* The outcomes of the six checks in the order analyze runs them.
Checks(opts, dom) ==
    <<Run(opts, "checkAnswerPlacement", checkAnswerFrontLoading(dom)),
      Run(opts, "checkFactDensity", checkFactDensity(dom)),
      Run(opts, "checkHeadingStructure", checkHeadingStructure(dom)),
      Run(opts, "checkEEAT", checkEEAT(dom)),
      Run(opts, "checkSnippability", checkSnippability(dom)),
      Run(opts, "checkSchema", checkSchemaCoverage(dom))>>

\* An issues array kept on the instance and never emptied: every call
\* pushes behind the issues of the calls before it.
CollectShared(outs) == result.issues \o Flatten([i \in 1..6 |-> outs[i].issues])

\* The issues array before it is sorted (issues.push(...result.issues)).
Collect(outs) == Flatten([i \in 1..6 |-> outs[i].issues])

\* A breakdown whose schema entry is set to 100 whatever the check returned.
BreakdownSchemaForced(outs) ==
    [answerFrontLoading |-> outs[1].score,
     factDensity |-> outs[2].score,
     headingStructure |-> outs[3].score,
     eeatSignals |-> outs[4].score,
     snippability |-> outs[5].score,
     schemaCoverage |-> 100]

Breakdown(outs) ==
    [answerFrontLoading |-> outs[1].score,
     factDensity |-> outs[2].score,
     headingStructure |-> outs[3].score,
     eeatSignals |-> outs[4].score,
     snippability |-> outs[5].score,
     schemaCoverage |-> outs[6].score]

\* OverallScore with the weighted sum truncated instead of rounded.
OverallScoreTruncated(breakdown) ==
    (25 * breakdown.answerFrontLoading + 15 * breakdown.factDensity
     + 15 * breakdown.headingStructure + 20 * breakdown.eeatSignals
     + 10 * breakdown.snippability + 15 * breakdown.schemaCoverage) \div 100

\* Math.round of the weighted sum; the weights are 0.25, 0.15, 0.15, 0.20,
\* 0.10 and 0.15, here in hundredths.
OverallScore(breakdown) ==
    Round(25 * breakdown.answerFrontLoading + 15 * breakdown.factDensity
          + 15 * breakdown.headingStructure + 20 * breakdown.eeatSignals
          + 10 * breakdown.snippability + 15 * breakdown.schemaCoverage, 100)

analyze(opts, doc) ==
    LET dom == Load(doc)
        outs == Checks(opts, dom)
        breakdown == Breakdown(outs)
    IN [overallScore |-> OverallScore(breakdown),
        breakdown |-> breakdown,
        issues |-> Sort(Collect(outs)),
        recommendations |-> generateRecommendations(breakdown)]

-----------------------------------------------------------------------------
(* The documents of the model *)

Seqs(S, n) == UNION {[1..k -> S] : k \in 0..n}

Doc(head, body) == [head |-> head, body |-> body]

\* Texts.  Two texts with the same key start with the same 50 characters.
H1 == Heading("h1", 1, 20)
H1Empty == Heading("h1", 0, 0)
H2 == Heading("h2", 2, 12)
H3 == Heading("h3", 3, 15)
H3Empty == Heading("h3", 0, 0)
H4 == Heading("h4", 4, 10)

\* An 80-character paragraph with an answer word, 20 words and one number
\* (5 facts per 100 words) and a trust phrase.
PAnswer == Para(7, 0, 80, TRUE, 20, 1, {"trust"})
\* The same paragraph behind 5 characters of white space.
PIndented == Para(7, 5, 80, TRUE, 20, 1, {"trust"})
\* A 60-character paragraph without an answer word or a number.
PPlain == Para(8, 0, 60, FALSE, 10, 0, {})
\* Paragraphs of 29 and of 30 characters with an answer word.
PShort == Para(6, 0, 29, TRUE, 5, 0, {})
PThirty == Para(5, 0, 30, TRUE, 5, 3, {"byline"})
\* A division of plain text, 300 characters long.
Filler == Node("div", 9, 0, 300, FALSE, 0, 0, {}, <<>>)
\* A heading and a division whose text starts like PAnswer.
H1Same == Heading("h1", 7, 80)
DivSame == Node("div", 7, 0, 80, FALSE, 0, 0, {}, <<>>)
MailLink == Node("a", 10, 0, 10, FALSE, 0, 0, {"contact"}, <<>>)

MainGood == Box("main", {}, <<H1, PAnswer, H2, PAnswer>>)
MainBare == Box("main", {}, <<H1>>)
Header == Box("div", {}, <<H1>>)
ContentDiv == Box("div", {"content"}, <<PPlain>>)
Footer == Box("footer", {"org"}, <<MailLink, PShort>>)
Section == Box("div", {}, <<H3Empty, H4, H3Empty, H3Empty>>)

ScriptFAQ == HeadEl("script", "valid", {"FAQPage"}, {})
ScriptOrg == HeadEl("script", "valid", {"Organization"}, {})
ScriptBad == HeadEl("script", "bad", {"FAQPage"}, {})
ScriptNull == HeadEl("script", "null", {}, {})
ScriptPartial == HeadEl("script", "partial", {}, {})
MetaAuthor == HeadEl("meta", "none", {}, {"author"})
MetaSite == HeadEl("meta", "none", {}, {"org"})

GeneralHeads == {<<>>, <<MetaAuthor, ScriptBad, ScriptOrg>>}

GeneralKinds == {H1, PPlain, MainGood, Footer, Section}

GeneralDocs ==
    {Doc(h, b) : h \in GeneralHeads, b \in Seqs(GeneralKinds, MaxTop)}

AnswerKinds == {H1, H1Same, Filler, DivSame, PAnswer, PIndented, PPlain,
                PShort, PThirty, MainBare, Header, ContentDiv}

AnswerDocs == {Doc(<<>>, b) : b \in Seqs(AnswerKinds, MaxAnswerTop)}

HeadingKinds == {H1, H1Empty, H2, H3, H3Empty, H4}

HeadingDocs == {Doc(<<>>, b) : b \in Seqs(HeadingKinds, MaxHeadings)}

\* Paragraphs of w words holding f fact tokens; a text without a word holds
\* no token.
WordCounts == {0, 10, 25, 40, 50}

FactParas ==
    {Para(8, 0, 6 * w, FALSE, w, f, {}) :
        w \in WordCounts, f \in 0..MaxFacts} \ 
    {Para(8, 0, 0, FALSE, 0, f, {}) : f \in 1..MaxFacts}

FactDocs == {Doc(<<>>, b) : b \in Seqs(FactParas, MaxParas)}

\* Documents for the four trust signals: meta tags of the head, an author
\* element, bylines and trust words in the text, contact links and footers.
AuthorSpan == Node("span", 11, 0, 8, FALSE, 0, 0, {"author"}, <<>>)

FooterPlain == Box("footer", {}, <<PShort>>)

EEATHeads == {<<>>, <<MetaAuthor>>, <<MetaSite>>, <<MetaAuthor, MetaSite>>}

EEATKinds == {PAnswer, PThirty, PPlain, MailLink, AuthorSpan, Footer,
              FooterPlain}

EEATDocs == {Doc(h, b) : h \in EEATHeads, b \in Seqs(EEATKinds, MaxTop)}

\* Documents for the snippability check.  A paragraph of 5 blanks and 79
\* other characters is 84 characters long and 79 after trim().
PPadded == Para(12, 5, 79, FALSE, 15, 0, {})

\* snippable sections, each an h2 with a paragraph of 80 characters, then
\* thin ones, each an h3 with a paragraph of 29, total of them in all.
SectionRun(snippable, total) ==
    [i \in 1..(2 * total) |->
        IF i <= 2 * snippable
        THEN (IF i % 2 = 1 THEN H2 ELSE PAnswer)
        ELSE (IF i % 2 = 1 THEN H3 ELSE PShort)]

SnippetKinds == {H2, H3, PAnswer, PPadded, MainGood}

SnippetDocs ==
    {Doc(<<>>, SectionRun(q[1], q[2])) :
        q \in {r \in (0..MaxSections) \X (0..MaxSections) : r[1] <= r[2]}}
    \cup {Doc(<<>>, b) : b \in Seqs(SnippetKinds, MaxTop)}

\* Documents for the schema check: up to MaxScripts JSON-LD blocks, each a
\* valid FAQPage, Organization or Article object, a text that is not JSON
\* but holds "FAQPage", the JSON text null, or an object without @type.
ScriptArticle == HeadEl("script", "valid", {}, {})

SchemaKinds == {ScriptFAQ, ScriptOrg, ScriptArticle, ScriptBad, ScriptNull,
                ScriptPartial}

SchemaDocs ==
    {Doc(h, b) : h \in Seqs(SchemaKinds, MaxScripts), b \in {<<>>, <<H1>>}}

\* Breakdowns handed to generateRecommendations: each entry is 0, 100, the
\* bound of its recommendation or the score just below the bound.
BreakdownGrid ==
    [answerFrontLoading : {0, 69, 70, 100}, factDensity : {0, 59, 60, 100},
     headingStructure : {0, 79, 80, 100}, eeatSignals : {0, 59, 60, 100},
     snippability : {0, 69, 70, 100}, schemaCoverage : {0, 49, 50, 100}]

\* Issue lists that stand next to such a breakdown.
GridIssues ==
    {<<>>, <<Issue("schema", "high", "No JSON-LD structured data found", 0, 0)>>}

\* The argument of the constructor: an object that sets some of the flags.
EmptyArg == [k \in {} |-> "true"]

OptionArgs == [Flags -> {"true", "false"}] \cup {EmptyArg}

FocusArgs == {EmptyArg,
              [k \in {"checkEEAT", "checkSchema"} |-> "false"]}

\* Every options object: each flag is absent, undefined, false or true.
UnsetArgs == UNION {[S -> {"true", "false", "undefined"}] : S \in SUBSET Flags}

\* Documents analysed under these options: the empty page and a page on
\* which every check finds something.
OptionDocs == {Doc(<<>>, <<>>), Doc(<<ScriptOrg>>, <<MainGood, Footer>>)}

\* Documents handed to one shared instance by its callers.
SharedDocs == {Doc(<<>>, <<>>), Doc(<<ScriptOrg>>, <<MainGood, Footer>>),
               Doc(<<>>, <<H1, PPlain>>), Doc(<<MetaAuthor>>, <<Section>>)}

\* Documents analysed under every pair of configurations.
FrameDocs ==
    SharedDocs \cup {Doc(<<ScriptBad, ScriptPartial>>, <<H2, PShort>>),
                     Doc(<<ScriptFAQ>>, <<Footer, H3>>)}

-----------------------------------------------------------------------------
(* The state machine *)

\* result and prev before any call has returned
NoResult ==
    [overallScore |-> 0,
     breakdown |-> [answerFrontLoading |-> 0, factDensity |-> 0,
                    headingStructure |-> 0, eeatSignals |-> 0,
                    snippability |-> 0, schemaCoverage |-> 0],
     issues |-> <<>>,
     recommendations |-> <<>>]

\* A caller of the shared instance: the document it passes, where it stands
\* (ready to call, awaiting the promise, resumed with the result) and the
\* value the promise of its call was resolved with.
Client(doc) == [doc |-> doc, pc |-> "ready", promise |-> NoResult]

\* An analyzer constructed with arg, and a caller holding document d.
InitWith(args, docs) ==
    \E arg \in args, d \in docs :
        /\ options = Constructor(arg)
        /\ html = d
        /\ calls = 0
        /\ result = NoResult
        /\ prev = NoResult
        /\ clients = <<>>
        /\ NoOthers

Init == InitWith(OptionArgs, GeneralDocs)

InitAnswer == InitWith(FocusArgs, AnswerDocs)

InitHeadings == InitWith(FocusArgs, HeadingDocs)

InitFacts == InitWith(FocusArgs, FactDocs)

InitEEAT == InitWith(FocusArgs, EEATDocs)

InitSnippet == InitWith(FocusArgs, SnippetDocs)

InitSchema == InitWith(FocusArgs, SchemaDocs)

InitOptions == InitWith(UnsetArgs, OptionDocs)

InitFrame == InitWith(OptionArgs, FrameDocs)

\* One analyzer, and MaxClients callers that each hold a document:
\* Promise.all([analyzer.analyze(html1), analyzer.analyze(html2), ...]).
InitShared ==
    \E arg \in FocusArgs, ds \in [1..MaxClients -> SharedDocs] :
        /\ options = Constructor(arg)
        /\ html = Doc(<<>>, <<>>)
        /\ calls = 0
        /\ result = NoResult
        /\ prev = NoResult
        /\ clients = [c \in 1..MaxClients |-> Client(ds[c])]
        /\ NoOthers

\* A result under construction: breakdown and issues are set, the
\* recommendations are not yet computed.
InitRecommend ==
    \E b \in BreakdownGrid, i \in GridIssues :
        /\ options = Constructor(EmptyArg)
        /\ html = Doc(<<>>, <<>>)
        /\ calls = 0
        /\ result = [NoResult EXCEPT !.breakdown = b, !.issues = i]
        /\ prev = NoResult
        /\ clients = <<>>
        /\ NoOthers

\* await analyzer.analyze(html): the call runs to completion, it has no
\* suspension point.
Analyze ==
    /\ calls < MaxCalls
    /\ prev' = result
    /\ result' = analyze(options, html)
    /\ calls' = calls + 1
    /\ UNCHANGED <<options, html, clients, others>>

\* recommendations: this.generateRecommendations(breakdown)
Recommend ==
    /\ calls < MaxCalls
    /\ prev' = result
    /\ result' = [result EXCEPT
                     !.recommendations = generateRecommendations(result.breakdown)]
    /\ calls' = calls + 1
    /\ UNCHANGED <<options, html, clients, others>>

\* Caller c evaluates analyzer.analyze(doc): the body of the async method
\* has no await, it runs to its return statement and the promise is
\* resolved with the returned object before any other caller runs.
Call(c) ==
    /\ clients[c].pc = "ready"
    /\ LET value == analyze(options, clients[c].doc)
       IN /\ clients' = [clients EXCEPT ![c].pc = "awaiting",
                                        ![c].promise = value]
          /\ result' = value
    /\ html' = clients[c].doc
    /\ prev' = result
    /\ calls' = calls + 1
    /\ UNCHANGED <<options, others>>

\* The continuation of caller c runs with the value of its promise.
Resume(c) ==
    /\ clients[c].pc = "awaiting"
    /\ clients' = [clients EXCEPT ![c].pc = "resumed"]
    /\ UNCHANGED <<options, html, calls, result, prev, others>>

NextShared == \E c \in DOMAIN clients : Call(c) \/ Resume(c)

Next == Analyze

Spec == Init /\ [][Next]_vars

SpecAnswer == InitAnswer /\ [][Next]_vars

SpecHeadings == InitHeadings /\ [][Next]_vars

SpecFacts == InitFacts /\ [][Next]_vars

SpecEEAT == InitEEAT /\ [][Next]_vars

SpecSnippet == InitSnippet /\ [][Next]_vars

SpecSchema == InitSchema /\ [][Next]_vars

SpecOptions == InitOptions /\ [][Next]_vars

SpecFrame == InitFrame /\ [][Next]_vars

SpecShared == InitShared /\ [][NextShared]_vars

SpecRecommend == InitRecommend /\ [][Recommend]_vars

-----------------------------------------------------------------------------
(* The known crawlers (src/data/crawlers.ts) *)

BotInfo(name, userAgentPattern) ==
    [name |-> name, userAgentPattern |-> userAgentPattern]

AI_CRAWLERS ==
    <<BotInfo("GPTBot", "gptbot"), BotInfo("ChatGPT-User", "chatgpt-user"),
      BotInfo("ClaudeBot", "claudebot"), BotInfo("Claude-Web", "claude-web"),
      BotInfo("PerplexityBot", "perplexitybot"),
      BotInfo("Google-Extended", "google-extended"),
      BotInfo("Googlebot", "googlebot"), BotInfo("Bingbot", "bingbot"),
      BotInfo("CCBot", "ccbot"), BotInfo("YouBot", "youbot"),
      BotInfo("cohere-ai", "cohere-ai"),
      BotInfo("meta-externalagent", "meta-externalagent"),
      BotInfo("Applebot-Extended", "applebot-extended"),
      BotInfo("Diffbot", "diffbot"), BotInfo("Bytespider", "bytespider")>>

-----------------------------------------------------------------------------
(* RobotsGenerator *)

DEFAULT_DISALLOW == <<"/admin", "/api", "/private", "/_next", "/static">>

\* config.f ?? default
OrDefault(config, f, default) ==
    IF f \in DOMAIN config THEN config[f] ELSE default

\* constructor(config = {})
RobotsGenerator(config) ==
    [allowAI |-> OrDefault(config, "allowAI",
                           [i \in 1..Len(AI_CRAWLERS) |-> AI_CRAWLERS[i].name]),
     blockAI |-> OrDefault(config, "blockAI", <<>>),
     disallow |-> OrDefault(config, "disallow", DEFAULT_DISALLOW),
     sitemapUrl |-> OrDefault(config, "sitemapUrl", ""),
     crawlDelay |-> OrDefault(config, "crawlDelay", 0)]

\* A line of robots.txt: "directive: value", a comment, or the empty line.
Line(directive, value) == [directive |-> directive, value |-> value]

Blank == Line("", "")

Includes(list, x) == \E i \in 1..Len(list) : list[i] = x

\* An allow list that is not filtered by the block list.
AllowedBotsUnfiltered(config) == config.allowAI

\* this.config.allowAI.filter((b) => !this.config.blockAI.includes(b))
AllowedBots(config) ==
    SelectSeq(config.allowAI, LAMBDA b : ~Includes(config.blockAI, b))

\* generate(): the lines that are joined with "\n"
generate(config) ==
    LET blocked ==
            IF Len(config.blockAI) > 0
            THEN <<Line("#", "Blocked AI crawlers (training opt-out)")>>
                 \o Flatten([i \in 1..Len(config.blockAI) |->
                                <<Line("User-agent", config.blockAI[i]),
                                  Line("Disallow", "/"), Blank>>])
            ELSE <<>>
        allowedBots == AllowedBots(config)
        allowed ==
            IF Len(allowedBots) > 0
            THEN <<Line("#", "AI crawlers - explicitly allowed")>>
                 \o Flatten([i \in 1..Len(allowedBots) |->
                                <<Line("User-agent", allowedBots[i]),
                                  Line("Allow", "/")>>
                                \o (IF config.crawlDelay > 0
                                    THEN <<Line("Crawl-delay", config.crawlDelay)>>
                                    ELSE <<>>)
                                \o <<Blank>>])
            ELSE <<>>
        default ==
            <<Line("#", "Default rules"), Line("User-agent", "*")>>
            \o [i \in 1..Len(config.disallow) |->
                   Line("Disallow", config.disallow[i])]
            \o <<Blank>>
            \o (IF config.sitemapUrl # ""
                THEN <<Line("Sitemap", config.sitemapUrl)>>
                ELSE <<>>)
    IN <<Line("#", "robots.txt - Generated by ai-visibility"),
         Line("#", "https://github.com/yourusername/ai-visibility"), Blank>>
       \o blocked \o allowed \o default

\* The bot names a site owner lists; gptbot is GPTBot in another case.
BotNames == {"GPTBot", "CCBot", "gptbot", "*"}

BotLists == Seqs(BotNames, MaxBots)

\* The argument of the constructor: each option is given or left out.
\* An option is <<>> when it is left out and <<v>> when it is given as v.
Opt(values) == {<<>>} \cup {<<v>> : v \in values}

Given(opts) ==
    [f \in {g \in DOMAIN opts : opts[g] # <<>>} |-> opts[f][1]]

RobotsConfigs ==
    {Given([allowAI |-> a, blockAI |-> b, disallow |-> d, sitemapUrl |-> s,
            crawlDelay |-> c]) :
        a \in Opt(BotLists), b \in Opt(BotLists),
        d \in Opt({<<>>}), s \in Opt({"https://example.com/sitemap.xml"}),
        c \in Opt({0, 10})}

analyzerVars == <<options, html, calls, result, prev, clients>>

\* No analyzer is in use.
NoAnalyzer ==
    /\ options = DEFAULT_OPTIONS
    /\ html = Doc(<<>>, <<>>)
    /\ calls = 0
    /\ result = NoResult
    /\ prev = NoResult
    /\ clients = <<>>

\* new RobotsGenerator(config); nothing is generated yet.
InitRobots ==
    \E config \in RobotsConfigs :
        /\ robots = [config |-> RobotsGenerator(config), generated |-> FALSE,
                     lines |-> <<>>]
        /\ express = <<>>
        /\ logger = <<>>
        /\ NoAnalyzer

\* gen.generate()
Generate ==
    /\ ~robots.generated
    /\ robots' = [robots EXCEPT !.generated = TRUE,
                                !.lines = generate(robots.config)]
    /\ UNCHANGED <<analyzerVars, express, logger>>

SpecRobots == InitRobots /\ [][Generate]_vars

-----------------------------------------------------------------------------
(* AIBotDetector *)

\* String.prototype.toLowerCase on the strings of the model.
LowerOf == [GPTBot |-> "gptbot", CCBot |-> "ccbot",
            MyCustomBot |-> "mycustombot", Mozilla |-> "mozilla",
            Bot |-> "bot"]

toLowerCase(s) == IF s \in DOMAIN LowerOf THEN LowerOf[s] ELSE s

\* a.includes(b) for lower-case words a and b of the model: "bot" is part
\* of the three bot names, every word holds itself and the empty string.
WordIncludes(a, b) ==
    \/ b = ""
    \/ b = a
    \/ (b = "bot" /\ a \in {"gptbot", "ccbot", "mycustombot"})

\* A User-Agent header is a sequence of words, <<>> is the empty string;
\* ua.includes(pattern) for a lower-case pattern without blanks.
UAIncludes(userAgent, pattern) ==
    \E i \in 1..Len(userAgent) :
        WordIncludes(toLowerCase(userAgent[i]), pattern)

\* null is <<>>, a BotInfo b is <<b>>.
\* detectBot(userAgent) of src/data/crawlers.ts
detectBot(userAgent) ==
    IF userAgent = <<>> THEN <<>>
    ELSE LET hits == SelectSeq(AI_CRAWLERS,
                               LAMBDA bot : UAIncludes(userAgent,
                                                       bot.userAgentPattern))
         IN IF hits = <<>> THEN <<>> ELSE <<hits[1]>>

\* constructor(config = {}); ignoreBots is a Set of lower-case strings.
AIBotDetector(config) ==
    LET ignore == OrDefault(config, "ignoreBots", <<>>)
    IN [additionalBots |-> OrDefault(config, "additionalBots", <<>>),
        ignoreBots |-> {toLowerCase(ignore[i]) : i \in 1..Len(ignore)}]

\* A test of the ignore set against the name of the crawler.
IsIgnoredByName(detector, known) == known.name \in detector.ignoreBots

\* this.ignoreBots.has(known.userAgentPattern)
IsIgnored(detector, known) == known.userAgentPattern \in detector.ignoreBots

\* detect(userAgent)
detect(detector, userAgent) ==
    IF userAgent = <<>> THEN <<>>
    ELSE
    LET known == detectBot(userAgent)
    IN IF known # <<>> /\ ~IsIgnored(detector, known[1])
       THEN known
       ELSE
       LET custom ==
               SelectSeq(detector.additionalBots,
                         LAMBDA pattern :
                             /\ UAIncludes(userAgent, toLowerCase(pattern))
                             /\ toLowerCase(pattern) \notin detector.ignoreBots)
       IN IF custom = <<>> THEN <<>>
          ELSE <<BotInfo(custom[1], toLowerCase(custom[1]))>>

\* User-Agent headers: none, a browser, known crawlers in either case, a
\* custom bot, and two crawlers in one header.
UserAgents ==
    {<<>>, <<"Mozilla">>, <<"GPTBot">>, <<"Mozilla", "gptbot">>, <<"CCBot">>,
     <<"MyCustomBot">>, <<"CCBot", "GPTBot">>, <<"GPTBot", "MyCustomBot">>}

IgnoreNames == {"gptbot", "GPTBot", "CCBot", "MyCustomBot"}

AdditionalLists ==
    {<<"MyCustomBot">>, <<"Bot">>, <<"Bot", "MyCustomBot">>, <<"GPTBot">>}

DetectorConfigs ==
    {Given([additionalBots |-> a, ignoreBots |-> i]) :
        a \in Opt(AdditionalLists), i \in Opt(Seqs(IgnoreNames, MaxBots))}

\* new AIBotDetector(config), and a user agent about to be passed to it.
InitDetector ==
    \E config \in DetectorConfigs, ua \in UserAgents :
        /\ express = [ignoreBots |-> OrDefault(config, "ignoreBots", <<>>),
                      detector |-> AIBotDetector(config),
                      userAgent |-> ua, called |-> FALSE, returned |-> <<>>]
        /\ robots = <<>>
        /\ logger = <<>>
        /\ NoAnalyzer

\* detector.detect(userAgent)
Detect ==
    /\ ~express.called
    /\ express' = [express EXCEPT
                      !.called = TRUE,
                      !.returned = detect(express.detector, express.userAgent)]
    /\ UNCHANGED <<analyzerVars, robots, logger>>

SpecDetector == InitDetector /\ [][Detect]_vars

-----------------------------------------------------------------------------
(* createAIMiddleware and optimizeResponseForAI *)

\* A response body: whether it is a string, whether it holds "<html" and
\* "<head>", the number of script elements that are not JSON-LD, and the
\* number of "Optimized for AI crawlers" comments in it.
Body(isString, html_, head, scripts) ==
    [isString |-> isString, html |-> html_, head |-> head,
     scripts |-> scripts, comments |-> 0]

\* HTMLOptimizer.optimize(html): the scripts are removed when stripJs is
\* set and the comment is put behind the first "<head>".
optimize(stripJs, body) ==
    [body EXCEPT !.scripts = IF stripJs THEN 0 ELSE @,
                 !.comments = IF body.head THEN @ + 1 ELSE @]

\* A middleware that patches res.send for every request.
ShouldOptimizeAlways(req) == TRUE

\* if (!req.isAIBot) { next(); return }
ShouldOptimize(req) == req.isAIBot

\* The patched res.send(body), over the send it wrapped: patches is the
\* number of wrappers around the original send.
Send(stripJs, contentType, patches, body) ==
    LET rewrite == body.isString /\ body.html
                   /\ contentType \in {"undefined", "text/html"}
        step[n \in 0..patches] ==
            IF n = 0 THEN body
            ELSE IF rewrite THEN optimize(stripJs, step[n - 1])
            ELSE step[n - 1]
    IN step[patches]

Middlewares == {"aiDetectorMiddleware", "aiOptimizeMiddleware"}

Bodies == {Body(TRUE, TRUE, TRUE, 2), Body(TRUE, TRUE, FALSE, 0),
           Body(TRUE, FALSE, FALSE, 0), Body(FALSE, FALSE, FALSE, 0)}

ChainAgents == {<<>>, <<"Mozilla">>, <<"GPTBot">>, <<"MyCustomBot">>}

ChainConfigs == {Given([ignoreBots |-> <<>>]),
                 Given([ignoreBots |-> <<<<"gptbot">>>>]),
                 Given([additionalBots |-> <<<<"MyCustomBot">>>>])}

\* app.use(...) in some order, then a route that sends body; one request
\* with the given User-Agent header enters the chain.
InitChain ==
    \E chain \in Seqs(Middlewares, MaxChain), config \in ChainConfigs,
       ua \in ChainAgents, body \in Bodies, stripJs \in BOOLEAN,
       contentType \in {"undefined", "text/html", "application/json"} :
        /\ express = [chain |-> chain,
                      detector |-> AIBotDetector(config),
                      stripJs |-> stripJs,
                      req |-> [userAgent |-> ua, isAIBot |-> FALSE,
                               aiBotInfo |-> <<>>],
                      res |-> [patches |-> 0, contentType |-> contentType,
                               sent |-> <<>>],
                      body |-> body,
                      pc |-> 1,
                      nextCalls |-> [i \in 1..Len(chain) |-> 0]]
        /\ robots = <<>>
        /\ logger = <<>>
        /\ NoAnalyzer

\* aiDetectorMiddleware(req, _res, next)
aiDetectorMiddleware ==
    /\ express.pc <= Len(express.chain)
    /\ express.chain[express.pc] = "aiDetectorMiddleware"
    /\ LET botInfo == detect(express.detector, express.req.userAgent)
       IN express' =
              [express EXCEPT
                  !.req.isAIBot = IF botInfo # <<>> THEN TRUE ELSE @,
                  !.req.aiBotInfo = IF botInfo # <<>> THEN botInfo ELSE @,
                  !.nextCalls[express.pc] = @ + 1,
                  !.pc = @ + 1]
    /\ UNCHANGED <<analyzerVars, robots, logger>>

\* aiOptimizeMiddleware(req, res, next)
aiOptimizeMiddleware ==
    /\ express.pc <= Len(express.chain)
    /\ express.chain[express.pc] = "aiOptimizeMiddleware"
    /\ express' =
           [express EXCEPT
               !.res.patches = IF ShouldOptimize(express.req) THEN @ + 1 ELSE @,
               !.nextCalls[express.pc] = @ + 1,
               !.pc = @ + 1]
    /\ UNCHANGED <<analyzerVars, robots, logger>>

\* The route handler: res.send(body)
Handler ==
    /\ express.pc = Len(express.chain) + 1
    /\ express' =
           [express EXCEPT
               !.res.sent = <<Send(express.stripJs, express.res.contentType,
                                   express.res.patches, express.body)>>,
               !.pc = @ + 1]
    /\ UNCHANGED <<analyzerVars, robots, logger>>

NextChain == aiDetectorMiddleware \/ aiOptimizeMiddleware \/ Handler

SpecChain == InitChain /\ [][NextChain]_vars

-----------------------------------------------------------------------------
(* AIVisitorLogger *)

DEFAULT_MAX_MEMORY == 1000

CrawlerLog(botName, url, statusCode) ==
    [botName |-> botName, url |-> url, statusCode |-> statusCode]

\* The log file: whether it exists, and the entries of the JSON array in it.
File(exists, entries) == [exists |-> exists, entries |-> entries]

\* constructor(config = {}), with the log file as it is found on disk: a
\* missing file is created with [] unless the storage is 'memory'.
AIVisitorLogger(config, disk) ==
    LET storage == OrDefault(config, "storage", "both")
    IN [config |-> [storage |-> storage,
                    maxMemoryEntries |-> OrDefault(config, "maxMemoryEntries",
                                                   DEFAULT_MAX_MEMORY)],
        memoryLogs |-> <<>>,
        file |-> IF storage # "memory" /\ ~disk.exists
                 THEN File(TRUE, <<>>) ELSE disk]

\* Array.prototype.slice(start) for a start that is negative or zero: a
\* negative start counts from the end, and -0 is 0, the whole array.
Slice(array, start) ==
    LET from == IF start < 0 THEN Max(Len(array) + start, 0)
                ELSE Min(start, Len(array))
    IN SubSeq(array, from + 1, Len(array))

\* if (this.memoryLogs.length > max) this.memoryLogs = this.memoryLogs.slice(-max)
Trim(memoryLogs, maxMemoryEntries) ==
    IF Len(memoryLogs) > maxMemoryEntries
    THEN Slice(memoryLogs, 0 - maxMemoryEntries)
    ELSE memoryLogs

\* readFromFile()
readFromFile(l) == IF ~l.file.exists THEN <<>> ELSE l.file.entries

\* saveLog(log): the memoryLogs and the file after it
saveLog(l, log) ==
    LET inMemory == l.config.storage \in {"memory", "both"}
        inFile == l.config.storage \in {"file", "both"}
    IN [l EXCEPT
           !.memoryLogs = IF inMemory
                          THEN Trim(Append(@, log), l.config.maxMemoryEntries)
                          ELSE @,
           !.file = IF inFile
                    THEN File(TRUE, Append(readFromFile(l), log))
                    ELSE @]

\* readAllLogs()
readAllLogs(l) ==
    IF l.config.storage = "memory" THEN l.memoryLogs
    ELSE IF l.config.storage = "file" THEN readFromFile(l)
    ELSE IF Len(l.memoryLogs) > 0 THEN l.memoryLogs
    ELSE readFromFile(l)

\* getLogs(filter): filter is <<>> when it is left out and <<botName>> for
\* { botName }.
getLogs(l, filter) ==
    SelectSeq(readAllLogs(l),
              LAMBDA log : filter = <<>> \/ log.botName = filter[1])

LogEntries == {CrawlerLog("GPTBot", "/", 200), CrawlerLog("GPTBot", "/a", 404),
               CrawlerLog("CCBot", "/", 500)}

\* Entries a former process left in the log file.
OldEntry == CrawlerLog("CCBot", "/old", 301)

Disks == {File(FALSE, <<>>), File(TRUE, <<>>), File(TRUE, <<OldEntry>>),
          File(TRUE, <<OldEntry, OldEntry>>)}

LoggerConfigs ==
    {Given([storage |-> s, maxMemoryEntries |-> m]) :
        s \in Opt({"memory", "file", "both"}), m \in Opt({0, 1, 2})}

\* new AIVisitorLogger(config).  logged is the sequence of entries passed to
\* log() so far; got and prevGot are the results of the last two getLogs()
\* calls, <<>> before the call and <<result>> after it; since counts the
\* log() calls after the last getLogs().
InitLogger ==
    \E config \in LoggerConfigs, disk \in Disks :
        /\ logger = [this |-> AIVisitorLogger(config, disk),
                     logged |-> <<>>, got |-> <<>>, prevGot |-> <<>>,
                     since |-> 0]
        /\ robots = <<>>
        /\ express = <<>>
        /\ NoAnalyzer

\* logger.log(entry)
Log(entry) ==
    /\ Len(logger.logged) < MaxLogs
    /\ logger' = [logger EXCEPT !.this = saveLog(@, entry),
                                !.logged = Append(@, entry),
                                !.since = @ + 1]
    /\ UNCHANGED <<analyzerVars, robots, express>>

\* logger.getLogs()
GetLogs ==
    /\ logger.since > 0 \/ logger.got = <<>>
    /\ logger' = [logger EXCEPT !.got = <<getLogs(logger.this, <<>>)>>,
                                !.prevGot = logger.got,
                                !.since = 0]
    /\ UNCHANGED <<analyzerVars, robots, express>>

NextLogger == (\E entry \in LogEntries : Log(entry)) \/ GetLogs

SpecLogger == InitLogger /\ [][NextLogger]_vars

-----------------------------------------------------------------------------
(* AIVisitorLogger.getStats *)

\* The BotStatsInternal a bot starts with.
NewStats(log) ==
    [botName |-> log.botName, totalVisits |-> 0, uniqueUrls |-> {},
     successRate |-> 0, successCount |-> 0]

\* One iteration of the loop over the logs: the entry of the bot is created
\* when it is missing, then the visit is counted and the rate recomputed.
Visit(stats, log) ==
    LET s == IF log.botName \in DOMAIN stats THEN stats[log.botName]
             ELSE NewStats(log)
        totalVisits == s.totalVisits + 1
        successCount == s.successCount
                        + (IF log.statusCode >= 200 /\ log.statusCode < 400
                           THEN 1 ELSE 0)
    IN [b \in DOMAIN stats \cup {log.botName} |->
           IF b = log.botName
           THEN [botName |-> s.botName,
                 totalVisits |-> totalVisits,
                 uniqueUrls |-> s.uniqueUrls \cup {log.url},
                 successCount |-> successCount,
                 successRate |-> RoundPercent(successCount, totalVisits)]
           ELSE stats[b]]

RECURSIVE Tally(_, _)
Tally(stats, logs) ==
    IF logs = <<>> THEN stats
    ELSE Tally(Visit(stats, Head(logs)), Tail(logs))

\* getStats(): the BotStatsSerialized of every bot (without the times).
getStats(l) ==
    LET stats == Tally([b \in {} |-> NewStats(OldEntry)], getLogs(l, <<>>))
    IN [b \in DOMAIN stats |->
           [botName |-> stats[b].botName,
            totalVisits |-> stats[b].totalVisits,
            uniqueUrlCount |-> Cardinality(stats[b].uniqueUrls),
            successRate |-> stats[b].successRate,
            successCount |-> stats[b].successCount]]

\* A log file holding the visits of GPTBot, the first successes of them
\* answered 200 and the others 404, to two pages in turn.
Visits(successes, total) ==
    [i \in 1..total |->
        CrawlerLog("GPTBot", IF i % 2 = 0 THEN "/" ELSE "/a",
                   IF i <= successes THEN 200 ELSE 404)]

StatsDisks ==
    {File(TRUE, Visits(v[1], v[2]) \o tail) :
        v \in {w \in (0..MaxVisits) \X (1..MaxVisits) : w[1] <= w[2]},
        tail \in {<<>>, <<OldEntry>>}}

\* A logger over a log file with visits in it.  selected and stats are the
\* entries the last getStats() call selected and its result, as sequences
\* of at most one element.
InitStats ==
    \E storage \in {"file", "both"}, disk \in StatsDisks :
        /\ logger = [this |-> AIVisitorLogger([storage |-> storage], disk),
                     logged |-> <<>>, since |-> 0,
                     selected |-> <<>>, stats |-> <<>>]
        /\ robots = <<>>
        /\ express = <<>>
        /\ NoAnalyzer

\* logger.getStats()
GetStats ==
    /\ logger' = [logger EXCEPT !.selected = <<getLogs(logger.this, <<>>)>>,
                                !.stats = <<getStats(logger.this)>>]
    /\ UNCHANGED <<analyzerVars, robots, express>>

NextStats == Log(CrawlerLog("GPTBot", "/", 302)) \/ GetStats

SpecStats == InitStats /\ [][NextStats]_vars

-----------------------------------------------------------------------------
(* Properties of analyze *)

Scores(b) == {b.answerFrontLoading, b.factDensity, b.headingStructure,
              b.eeatSignals, b.snippability, b.schemaCoverage}

\* The weighted sum of a breakdown, in hundredths.
Weighted(b) ==
    25 * b.answerFrontLoading + 15 * b.factDensity + 15 * b.headingStructure
    + 20 * b.eeatSignals + 10 * b.snippability + 15 * b.schemaCoverage

\* The type of the issues of a check and the breakdown field it fills.
TypeOf == [checkAnswerPlacement |-> "answer-placement",
           checkFactDensity |-> "fact-density",
           checkHeadingStructure |-> "heading-structure",
           checkEEAT |-> "eeat",
           checkSnippability |-> "snippability",
           checkSchema |-> "schema"]

ScoreOf(b, flag) ==
    CASE flag = "checkAnswerPlacement" -> b.answerFrontLoading
      [] flag = "checkFactDensity" -> b.factDensity
      [] flag = "checkHeadingStructure" -> b.headingStructure
      [] flag = "checkEEAT" -> b.eeatSignals
      [] flag = "checkSnippability" -> b.snippability
      [] flag = "checkSchema" -> b.schemaCoverage

OutcomeOf(flag, dom) ==
    CASE flag = "checkAnswerPlacement" -> checkAnswerFrontLoading(dom)
      [] flag = "checkFactDensity" -> checkFactDensity(dom)
      [] flag = "checkHeadingStructure" -> checkHeadingStructure(dom)
      [] flag = "checkEEAT" -> checkEEAT(dom)
      [] flag = "checkSnippability" -> checkSnippability(dom)
      [] flag = "checkSchema" -> checkSchemaCoverage(dom)

\* Position of a check in the sequence analyze runs.
RankOf(type) ==
    CASE type = "answer-placement" -> 1 [] type = "fact-density" -> 2
      [] type = "heading-structure" -> 3 [] type = "eeat" -> 4
      [] type = "snippability" -> 5 [] type = "schema" -> 6

SeverityRank(sev) == IF sev = "high" THEN 0 ELSE IF sev = "medium" THEN 1 ELSE 2

Severities(issues) == {issues[i].severity : i \in 1..Len(issues)}

\* C1: every result of analyze, for every document (the empty one included)
\* and every combination of the six flags, has its six sub-scores and its
\* overall score in 0..100.
C1_ScoresInRange ==
    calls > 0 =>
        /\ \A x \in Scores(result.breakdown) : x \in 0..100
        /\ result.overallScore \in 0..100

\* The heading penalties of the analysed document exceed 100 and the
\* sub-score is held at 0.
C1_Witness ==
    /\ calls > 0
    /\ Truthy(options["checkHeadingStructure"])
    /\ Len(SelectSeq(result.issues,
                     LAMBDA x : x.message = "Empty heading tag found")) >= 5
    /\ result.breakdown.headingStructure = 0

\* C2: the overall score of a result is the weighted sum of the breakdown of
\* that result, weights 0.25, 0.15, 0.15, 0.20, 0.10, 0.15, rounded half up.
C2_OverallIsWeightedSum ==
    calls > 0 =>
        result.overallScore = (Weighted(result.breakdown) + 50) \div 100

\* A result whose weighted sum lies exactly half way between two integers,
\* with one check disabled.
C2_Witness ==
    /\ calls > 0
    /\ Weighted(result.breakdown) % 100 = 50
    /\ \E k \in Flags : ~Truthy(options[k])

\* C3: the severity rank never decreases along the issues of a result.
C3_SeveritySorted ==
    calls > 0 =>
        \A i, j \in 1..Len(result.issues) :
            i < j => SeverityRank(result.issues[i].severity)
                     <= SeverityRank(result.issues[j].severity)

\* A result with high, medium and low issues, which the checks produced in
\* another order than by severity.
C3_Witness ==
    /\ calls > 0
    /\ Severities(result.issues) = {"high", "medium", "low"}
    /\ result.issues # Collect(Checks(options, Load(html)))

\* C4: issues of equal severity keep the order of production: the checks in
\* the order answer-placement, fact-density, heading-structure, eeat,
\* snippability, schema, and inside one check the order of emission.
C4_StableWithinSeverity ==
    calls > 0 =>
        /\ \A i, j \in 1..Len(result.issues) :
               (i < j /\ result.issues[i].severity = result.issues[j].severity)
               => RankOf(result.issues[i].type) <= RankOf(result.issues[j].type)
        /\ \A k \in Flags :
               Truthy(options[k]) =>
                   LET emitted == OutcomeOf(k, Load(html)).issues
                   IN \A sev \in {"high", "medium", "low"} :
                          SelectSeq(result.issues,
                              LAMBDA x : x.type = TypeOf[k]
                                         /\ x.severity = sev)
                          = SelectSeq(emitted, LAMBDA x : x.severity = sev)

\* A result where a medium issue of one check precedes two different medium
\* issues of a later check, and low issues of two checks follow.
C4_Witness ==
    /\ calls > 0
    /\ \E i, j, k \in 1..Len(result.issues) :
          /\ i < j /\ j < k
          /\ \A m \in {i, j, k} : result.issues[m].severity = "medium"
          /\ RankOf(result.issues[i].type) < RankOf(result.issues[j].type)
          /\ result.issues[j].type = result.issues[k].type
          /\ result.issues[j].message # result.issues[k].message
    /\ \E i, j \in 1..Len(result.issues) :
          /\ result.issues[i].severity = "low"
          /\ result.issues[j].severity = "low"
          /\ result.issues[i].type # result.issues[j].type

\* C5: a check whose flag is false has the sub-score 100 and contributes no
\* issue of its type.
C5_DisabledCheck ==
    calls > 0 =>
        \A k \in Flags :
            options[k] = "false" =>
                /\ ScoreOf(result.breakdown, k) = 100
                /\ \A i \in 1..Len(result.issues) :
                       result.issues[i].type # TypeOf[k]

\* A check is disabled on a document for which the check itself reports
\* issues and a score below 100, while an enabled check reports issues.
C5_Witness ==
    /\ calls > 0
    /\ \E k \in Flags :
          /\ options[k] = "false"
          /\ OutcomeOf(k, Load(html)).score < 100
          /\ OutcomeOf(k, Load(html)).issues # <<>>
          /\ \E o \in Flags : /\ Truthy(options[o])
                              /\ OutcomeOf(o, Load(html)).issues # <<>>

-----------------------------------------------------------------------------
(* Properties of the single checks *)

IssuesOfType(type) == SelectSeq(result.issues, LAMBDA x : x.type = type)

CountIssues(type, message, severity) ==
    Len(SelectSeq(result.issues,
                  LAMBDA x : x.type = type /\ x.message = message
                             /\ x.severity = severity))

Num(b) == IF b THEN 1 ELSE 0

\* The offset of the trimmed text of element e in the body text.
OwnOffset(e) == e.off + e.n.lead

\* The outcome the cascade of claim C7 gives for the body: the score, and the
\* severities of the issues.
AnswerCascade(dom) ==
    LET firstP == FirstP(dom)
    IN IF Select(dom, {"h1"}) = <<>> THEN <<0, <<"high">> >>
       ELSE IF firstP = <<>> \/ firstP[1].n.core < 30 THEN <<20, <<"high">> >>
       ELSE IF ~firstP[1].n.ans THEN <<55, <<"medium">> >>
       ELSE IF 5 * OwnOffset(firstP[1]) > BodyLen(dom)
       THEN <<65, <<"medium">> >>
       ELSE <<95, <<>> >>

\* C7: the answer-placement check is a first-match cascade with five
\* outcomes: no h1 -> 0 and one high issue; opening paragraph missing or
\* shorter than 30 characters -> 20 and one high issue; no answer word -> 55
\* and one medium issue; offset of the paragraph over the length of the body
\* text above 0.2 -> 65 and one medium issue; else 95 and no issue.
C7_AnswerCascade ==
    (calls > 0 /\ Truthy(options["checkAnswerPlacement"])) =>
        LET mine == IssuesOfType("answer-placement")
        IN AnswerCascade(Load(html))
           = <<result.breakdown.answerFrontLoading,
               [i \in 1..Len(mine) |-> mine[i].severity]>>

\* The words and the fact tokens of all paragraphs of a body.
ParaTotal(dom, f(_)) ==
    LET es == dom.elems
        ps == {i \in 1..Len(es) : es[i].n.tag = "p"}
    IN SumSeq([i \in 1..Len(es) |-> IF i \in ps THEN f(es[i].n) ELSE 0])

WordsOf(n) == n.words

FactsOf(n) == n.facts

\* C8: with W the words and F the fact tokens of all paragraphs, and
\* rate = F / W * 100, the fact-density check returns 0 and one high issue
\* when W = 0, 25 and one high issue when rate < 2, 60 and one medium issue
\* when 2 <= rate < 4, 75 and one low issue when rate > 10, and 95 without an
\* issue when 4 <= rate <= 10.
C8_FactDensityTable ==
    (calls > 0 /\ Truthy(options["checkFactDensity"])) =>
        LET W == ParaTotal(Load(html), WordsOf)
            F == ParaTotal(Load(html), FactsOf)
            mine == IssuesOfType("fact-density")
            got == <<result.breakdown.factDensity,
                     [i \in 1..Len(mine) |-> mine[i].severity]>>
        IN /\ W = 0 => got = <<0, <<"high">> >>
           /\ (W > 0 /\ 100 * F < 2 * W) => got = <<25, <<"high">> >>
           /\ (W > 0 /\ 2 * W <= 100 * F /\ 100 * F < 4 * W)
                  => got = <<60, <<"medium">> >>
           /\ (W > 0 /\ 100 * F > 10 * W) => got = <<75, <<"low">> >>
           /\ (W > 0 /\ 4 * W <= 100 * F /\ 100 * F <= 10 * W)
                  => got = <<95, <<>> >>

\* Two paragraphs whose rate is exactly 10 facts per 100 words are scored 95.
C8_Witness ==
    /\ calls > 0
    /\ Truthy(options["checkFactDensity"])
    /\ Len(html.body) = 2
    /\ ParaTotal(Load(html), WordsOf) > 0
    /\ 100 * ParaTotal(Load(html), FactsOf) = 10 * ParaTotal(Load(html), WordsOf)
    /\ result.breakdown.factDensity = 95

\* The levels of the h1..h4 elements in document order.
HeadingLevels(dom) ==
    LET hs == Select(dom, {"h1", "h2", "h3", "h4"})
    IN [i \in 1..Len(hs) |-> Level(hs[i].n.tag)]

\* The level a heading is compared with: that of the heading before it, 1 for
\* the first heading.
Basis(levels, i) == IF i = 1 THEN 1 ELSE levels[i - 1]

SkipAt(levels) ==
    {i \in 1..Len(levels) : levels[i] > Basis(levels, i) + 1}

EmptyHeadings(dom) ==
    LET hs == Select(dom, {"h1", "h2", "h3"})
    IN {i \in 1..Len(hs) : TrimLen(hs[i].n) = 0}

HeadingPenalty(dom) ==
    LET h1 == Len(Select(dom, {"h1"}))
        h2 == Len(Select(dom, {"h2"}))
        h3 == Len(Select(dom, {"h3"}))
    IN 40 * Num(h1 = 0) + 20 * Num(h1 > 1) + 20 * Num(h3 > 0 /\ h2 = 0)
       + 10 * Cardinality(SkipAt(HeadingLevels(dom)))
       + 10 * Cardinality(EmptyHeadings(dom))

\* C9: the heading-structure score is 100 less 40 for no h1, 20 for several
\* h1, 20 for an h3 without any h2, 10 per skipped level and 10 per empty
\* h1/h2/h3, floored at 0, and the check emits exactly one issue per penalty:
\* high for the missing h1, low per skip, medium for the others.
C9_HeadingScore ==
    (calls > 0 /\ Truthy(options["checkHeadingStructure"])) =>
        LET dom == Load(html)
            h1 == Len(Select(dom, {"h1"}))
            h2 == Len(Select(dom, {"h2"}))
            h3 == Len(Select(dom, {"h3"}))
            nSkip == Cardinality(SkipAt(HeadingLevels(dom)))
            nEmpty == Cardinality(EmptyHeadings(dom))
            count(m, sev) == CountIssues("heading-structure", m, sev)
        IN /\ result.breakdown.headingStructure
                  = Max(0, 100 - HeadingPenalty(dom))
           /\ count("Missing H1 tag", "high") = Num(h1 = 0)
           /\ count("Multiple H1 tags found", "medium") = Num(h1 > 1)
           /\ count("H3 tags used without any H2 tags", "medium")
                  = Num(h3 > 0 /\ h2 = 0)
           /\ count("Heading level skipped", "low") = nSkip
           /\ count("Empty heading tag found", "medium") = nEmpty
           /\ Len(IssuesOfType("heading-structure"))
                  = Num(h1 = 0) + Num(h1 > 1) + Num(h3 > 0 /\ h2 = 0)
                    + nSkip + nEmpty

\* The penalties of the document add up to more than 100, with several empty
\* headings, and the score is 0.
C9_Witness ==
    /\ calls > 0
    /\ Truthy(options["checkHeadingStructure"])
    /\ HeadingPenalty(Load(html)) > 100
    /\ Cardinality(EmptyHeadings(Load(html))) >= 2
    /\ result.breakdown.headingStructure = 0

\* The k-th smallest element of a set of numbers.
Kth(S, k) == CHOOSE i \in S : Cardinality({j \in S : j < i}) = k - 1

\* C10: walking the h1..h4 elements in document order with the basis 1 at the
\* start, a level-skipped issue is emitted for a heading exactly when its
\* level exceeds the level of the heading before it (1 for the first) by more
\* than one, naming these two levels; a page with h1 directly followed by h3
\* and no h2 gets the h3-without-h2 finding and the skip from 1 to 3, and the
\* page made of just these two headings scores 100 - 20 - 10.
C10_SkipAgainstPredecessor ==
    (calls > 0 /\ Truthy(options["checkHeadingStructure"])) =>
        LET levels == HeadingLevels(Load(html))
            at == SkipAt(levels)
            skips == SelectSeq(result.issues,
                         LAMBDA x : x.message = "Heading level skipped")
        IN /\ [k \in 1..Len(skips) |-> <<skips[k].a, skips[k].b>>]
              = [k \in 1..Cardinality(at) |->
                    <<Basis(levels, Kth(at, k)), levels[Kth(at, k)]>>]
           /\ ((\E i \in 1..(Len(levels) - 1) :
                    levels[i] = 1 /\ levels[i + 1] = 3)
               /\ \A i \in 1..Len(levels) : levels[i] # 2)
              => /\ CountIssues("heading-structure",
                        "H3 tags used without any H2 tags", "medium") = 1
                 /\ \E k \in 1..Len(skips) :
                        skips[k].a = 1 /\ skips[k].b = 3
           /\ levels = <<1, 3>> /\ EmptyHeadings(Load(html)) = {}
              => result.breakdown.headingStructure = 70

\* A page without h2 in which two headings skip a level, one of them an h3
\* directly behind an h1, and a heading in between does not.
C10_Witness ==
    /\ calls > 0
    /\ Truthy(options["checkHeadingStructure"])
    /\ LET levels == HeadingLevels(Load(html))
       IN /\ Cardinality(SkipAt(levels)) >= 2
          /\ \E i \in 1..(Len(levels) - 1) : levels[i] = 1 /\ levels[i + 1] = 3
          /\ \A i \in 1..Len(levels) : levels[i] # 2
          /\ CountIssues("heading-structure", "Heading level skipped", "low")
                 = Cardinality(SkipAt(levels))

\* The four signals of a document, as the page shows them.
HasSignal(dom, signal) ==
    LET text(m) == \E i \in 1..Len(dom.elems) :
                       /\ dom.elems[i].n.kids = <<>>
                       /\ RawLen(dom.elems[i].n) > 0
                       /\ m \in dom.elems[i].n.marks
        attr(m) == \/ \E i \in 1..Len(dom.head) : m \in dom.head[i].marks
                   \/ \E i \in 1..Len(dom.elems) : m \in dom.elems[i].n.marks
        tag(t) == \E i \in 1..Len(dom.elems) : dom.elems[i].n.tag = t
    IN CASE signal = "author" -> attr("author") \/ text("byline")
         [] signal = "organization" -> attr("org")
         [] signal = "contact" -> attr("contact") \/ tag("footer")
         [] signal = "trust" -> text("trust")

Signals == {"author", "organization", "contact", "trust"}

SignalSeverity == [author |-> "medium", organization |-> "low",
                   contact |-> "medium", trust |-> "low"]

SignalMessage == [author |-> "No author information detected",
                  organization |-> "No organization/publisher markup found",
                  contact |-> "No contact information found",
                  trust |-> "No expertise/trust signals detected"]

\* C11: the E-E-A-T sub-score is 25 for each satisfied signal among author,
\* organization, contact and trust language; each unsatisfied signal has
\* exactly one issue (author and contact medium, organization and trust
\* low) and a satisfied one has none; the sub-score is one of 0, 25, 50, 75,
\* 100 and sub-score + 25 * (number of eeat issues) = 100.
C11_EEATScore ==
    (calls > 0 /\ Truthy(options["checkEEAT"])) =>
        LET dom == Load(html)
            met == {s \in Signals : HasSignal(dom, s)}
            score == result.breakdown.eeatSignals
        IN /\ score = 25 * Cardinality(met)
           /\ score \in {0, 25, 50, 75, 100}
           /\ score + 25 * Len(IssuesOfType("eeat")) = 100
           /\ \A s \in Signals :
                  CountIssues("eeat", SignalMessage[s], SignalSeverity[s])
                  = Num(s \notin met)
           /\ \A i \in 1..Len(IssuesOfType("eeat")) :
                  \E s \in Signals \ met :
                      IssuesOfType("eeat")[i].message = SignalMessage[s]

\* A page with an author and contact details but neither organization
\* markup nor trust language: 50, and the two low issues.
C11_Witness ==
    /\ calls > 0
    /\ Truthy(options["checkEEAT"])
    /\ result.breakdown.eeatSignals = 50
    /\ Len(IssuesOfType("eeat")) = 2
    /\ \A i \in 1..2 : IssuesOfType("eeat")[i].severity = "low"

\* The h2 and h3 elements of a document, and those of them whose next
\* sibling element holds at least 80 characters of trimmed text.
SubHeadings(dom) == {i \in 1..Len(dom.elems) : dom.elems[i].n.tag \in {"h2", "h3"}}

IsNextSibling(e, x) ==
    IF e.sub = 0 THEN x.sub = 0 /\ x.top = e.top + 1
    ELSE x.top = e.top /\ x.sub = e.sub + 1

Snippable(dom) ==
    {i \in SubHeadings(dom) :
        \E j \in 1..Len(dom.elems) :
            /\ IsNextSibling(dom.elems[i], dom.elems[j])
            /\ TrimLen(dom.elems[j].n) >= 80}

\* C12: without h2 and h3 the snippability check returns 30 and exactly one
\* issue, of medium severity; with t of them, s followed by a sibling of at
\* least 80 trimmed characters, it returns round(100 * s / t) and exactly
\* t - s issues, all of low severity.
C12_Snippability ==
    (calls > 0 /\ Truthy(options["checkSnippability"])) =>
        LET dom == Load(html)
            t == Cardinality(SubHeadings(dom))
            s == Cardinality(Snippable(dom))
            score == result.breakdown.snippability
            issues == IssuesOfType("snippability")
        IN IF t = 0
           THEN /\ score = 30
                /\ Len(issues) = 1
                /\ issues[1].severity = "medium"
           ELSE /\ score = Round(100 * s, t)
                /\ Len(issues) = t - s
                /\ \A i \in 1..Len(issues) : issues[i].severity = "low"

\* The JSON-LD blocks of a document, those that parse to an object with
\* @context and @type, and the presence of a marker in their joint text.
Blocks(d) == {i \in 1..Len(d.head) : d.head[i].tag = "script"}

ValidBlocks(d) == {i \in Blocks(d) : d.head[i].json = "valid"}

HasMarker(d, marker) == \E i \in Blocks(d) : marker \in d.head[i].types

\* C13: the schema check returns 0 and one high issue when the page has no
\* JSON-LD block; 10 when it has blocks but none parses to an object with
\* both @context and @type; otherwise 100, 75 or 50 as the text of all the
\* blocks together holds both, one or none of the FAQPage and Organization
\* markers, with exactly one low issue for each missing marker.
C13_SchemaCoverage ==
    (calls > 0 /\ Truthy(options["checkSchema"])) =>
        LET score == result.breakdown.schemaCoverage
            issues == IssuesOfType("schema")
            faq == HasMarker(html, "FAQPage")
            org == HasMarker(html, "Organization")
            low == SelectSeq(issues, LAMBDA x : x.severity = "low")
        IN IF Blocks(html) = {}
           THEN /\ score = 0
                /\ Len(issues) = 1
                /\ issues[1].severity = "high"
           ELSE IF ValidBlocks(html) = {}
           THEN score = 10
           ELSE /\ score = (IF faq /\ org THEN 100
                            ELSE IF faq \/ org THEN 75 ELSE 50)
                /\ CountIssues("schema", "No FAQPage schema found", "low")
                   = Num(~faq)
                /\ CountIssues("schema", "No Organization schema found",
                               "low") = Num(~org)
                /\ Len(low) = Num(~faq) + Num(~org)

\* A page with one valid block, an Organization: 75, the missing-FAQPage
\* issue and no missing-Organization issue.
C13_Witness ==
    /\ calls > 0
    /\ Truthy(options["checkSchema"])
    /\ html.head = <<ScriptOrg>>
    /\ result.breakdown.schemaCoverage = 75
    /\ CountIssues("schema", "No FAQPage schema found", "low") = 1
    /\ CountIssues("schema", "No Organization schema found", "low") = 0

\* The blocks whose content JSON.parse rejects.
Unparseable(d) == {i \in Blocks(d) : d.head[i].json = "bad"}

\* C14: each JSON-LD block that fails to parse gives exactly one medium
\* schema issue and is not counted as valid, the blocks behind it are still
\* examined and analyze returns: with n unparseable blocks the result holds
\* exactly n parse-error issues.
C14_ParseErrors ==
    (calls > 0 /\ Truthy(options["checkSchema"])) =>
        /\ CountIssues("schema", "Invalid JSON-LD schema found (parse error)",
                       "medium") = Cardinality(Unparseable(html))
        /\ Len(SelectSeq(IssuesOfType("schema"),
                         LAMBDA x : x.severity = "medium"))
           = Cardinality(Unparseable(html))
        /\ (ValidBlocks(html) = {} /\ Blocks(html) # {})
               => result.breakdown.schemaCoverage = 10
        /\ (ValidBlocks(html) # {})
               => result.breakdown.schemaCoverage \in {50, 75, 100}

\* The flag of the check that reports issues of a type, and the highest
\* score each check can return.
FlagOf(type) == CHOOSE k \in Flags : TypeOf[k] = type

MaxScore == [checkAnswerPlacement |-> 95, checkFactDensity |-> 95,
             checkHeadingStructure |-> 100, checkEEAT |-> 100,
             checkSnippability |-> 100, checkSchema |-> 100]

\* C15: when a result holds a high-severity issue of the type of a check,
\* the breakdown entry of that check is strictly below the maximum of the
\* check: 95 for answer placement and fact density, 100 for the others.
C15_HighIssueBelowMax ==
    calls > 0 =>
        \A i \in 1..Len(result.issues) :
            result.issues[i].severity = "high" =>
                ScoreOf(result.breakdown, FlagOf(result.issues[i].type))
                < MaxScore[FlagOf(result.issues[i].type)]

\* A result with high issues of the answer, heading and schema checks next
\* to a disabled check that holds 100.
C15_Witness ==
    /\ calls > 0
    /\ \A t \in {"answer-placement", "heading-structure", "schema"} :
           \E i \in 1..Len(result.issues) :
               result.issues[i].type = t /\ result.issues[i].severity = "high"
    /\ ~Truthy(options["checkFactDensity"])
    /\ result.breakdown.factDensity = 100

\* The recommendations in their fixed order, each with the entry it reads and
\* the bound below which it is given.
RecTable(b) ==
    <<<<b.answerFrontLoading, 70, "Front-load your answers">>,
      <<b.factDensity, 60, "Add more data">>,
      <<b.headingStructure, 80, "Fix heading hierarchy">>,
      <<b.eeatSignals, 60, "Boost E-E-A-T">>,
      <<b.snippability, 70, "Improve snippability">>,
      <<b.schemaCoverage, 50, "Add structured data">>>>

Triggered(b) == SelectSeq(RecTable(b), LAMBDA r : r[1] < r[2])

\* C16: the recommendations of a result are a function of its breakdown
\* alone: in the fixed order, one string for each entry below its bound
\* (answer 70, facts 60, headings 80, E-E-A-T 60, snippability 70, schema
\* 50), and the well-optimized affirmation alone exactly when no entry is
\* below its bound; the list is never empty and does not depend on the
\* issues.
C16_Recommendations ==
    calls > 0 =>
        LET t == Triggered(result.breakdown)
            recs == result.recommendations
        IN /\ recs # <<>>
           /\ IF t = <<>>
              THEN recs = <<"Great job">>
              ELSE recs = [i \in 1..Len(t) |-> t[i][3]]
           /\ ("Great job" \in {recs[i] : i \in 1..Len(recs)}) <=> (t = <<>>)

\* A breakdown with every entry on its bound and a high issue beside it: no
\* recommendation is triggered and the affirmation is given.
C16_Witness ==
    /\ calls > 0
    /\ result.breakdown = [answerFrontLoading |-> 70, factDensity |-> 60,
                           headingStructure |-> 80, eeatSignals |-> 60,
                           snippability |-> 70, schemaCoverage |-> 50]
    /\ result.issues # <<>>
    /\ result.recommendations = <<"Great job">>

\* C17: each of the six flags defaults to enabled: when the analyzer was
\* constructed without options, or with an options object that leaves a
\* flag unset (absent or undefined), the check of that flag runs, and the
\* result holds the score and the issues the check computes instead of a
\* forced 100.  After the constructor a flag that was absent holds the
\* default and a flag that was undefined holds undefined.
C17_DefaultsEnabled ==
    calls > 0 =>
        \A k \in Flags :
            (options[k] = DEFAULT_OPTIONS[k] \/ options[k] = "undefined") =>
                /\ ScoreOf(result.breakdown, k) = OutcomeOf(k, Load(html)).score
                /\ Len(IssuesOfType(TypeOf[k]))
                   = Len(OutcomeOf(k, Load(html)).issues)

\* What cheerio.load('') yields: no head element and no body element.
EmptyInput == Doc(<<>>, <<>>)

AllEnabled == \A k \in Flags : Truthy(options[k])

\* C18: for the empty string with all six checks enabled the result holds
\* headingStructure = 60, schemaCoverage = 0 and factDensity = 0, and at
\* least one issue of each of the types heading-structure, schema and
\* fact-density.
C18_EmptyInput ==
    (calls > 0 /\ html = EmptyInput /\ AllEnabled) =>
        /\ result.breakdown.headingStructure = 60
        /\ result.breakdown.schemaCoverage = 0
        /\ result.breakdown.factDensity = 0
        /\ \A t \in {"heading-structure", "schema", "fact-density"} :
               Len(IssuesOfType(t)) >= 1

\* The empty string analysed by an analyzer constructed without options.
C18_Witness ==
    /\ calls > 0
    /\ html = EmptyInput
    /\ AllEnabled
    /\ result.breakdown.answerFrontLoading = 0
    /\ result.breakdown.snippability = 30
    /\ result.overallScore = 12

C20_Frame ==
    calls > 0 =>
        \A arg \in [Flags -> {"true", "false"}] :
            LET other == analyze(Constructor(arg), html)
            IN \A k \in Flags :
                   Constructor(arg)[k] = options[k] =>
                       /\ ScoreOf(other.breakdown, k)
                          = ScoreOf(result.breakdown, k)
                       /\ SelectSeq(other.issues,
                                    LAMBDA x : x.type = TypeOf[k])
                          = IssuesOfType(TypeOf[k])

\* A result with issues of the snippability check while the E-E-A-T and
\* schema checks are disabled: the configurations with either of them
\* enabled put other issues among them.
C20_Witness ==
    /\ calls > 0
    /\ Truthy(options["checkSnippability"])
    /\ ~Truthy(options["checkEEAT"])
    /\ ~Truthy(options["checkSchema"])
    /\ Len(IssuesOfType("snippability")) >= 1
    /\ Len(IssuesOfType("heading-structure")) >= 2
    /\ IssuesOfType("eeat") = <<>>

\* The lines of the group that starts at line i: up to the next empty line.
GroupOf(lines, i) ==
    {j \in i..Len(lines) : \A k \in i..j : lines[k] # Blank}

\* C21: for all allowAI and blockAI lists, generate emits for every bot of
\* blockAI a "User-agent: <bot>" line directly followed by "Disallow: /",
\* and no group of a bot that is in blockAI holds "Allow: /", also when the
\* bot is in allowAI as well.
C21_BlockPrecedence ==
    robots.generated =>
        LET lines == robots.lines
            blockAI == robots.config.blockAI
        IN /\ \A b \in 1..Len(blockAI) :
                  \E i \in 1..(Len(lines) - 1) :
                      /\ lines[i] = Line("User-agent", blockAI[b])
                      /\ lines[i + 1] = Line("Disallow", "/")
           /\ \A i \in 1..Len(lines) :
                  (lines[i].directive = "User-agent"
                   /\ Includes(blockAI, lines[i].value)) =>
                      \A j \in GroupOf(lines, i) :
                          lines[j] # Line("Allow", "/")

\* A bot that is in both lists, next to an allowed one: the output holds an
\* Allow group, and the bot of both lists has its Disallow group.
C21_Witness ==
    /\ robots # <<>>
    /\ robots.generated
    /\ \E i \in 1..Len(robots.config.allowAI) :
           Includes(robots.config.blockAI, robots.config.allowAI[i])
    /\ \E i \in 1..Len(robots.lines) : robots.lines[i] = Line("Allow", "/")

\* C22: detect never returns a bot that ignoreBots lists: the name of the
\* BotInfo it returns, a known crawler or an entry of additionalBots,
\* differs from every entry of ignoreBots when case is ignored; and detect
\* returns null for the empty user agent.
C22_IgnoredNeverReturned ==
    express.called =>
        /\ express.returned # <<>> =>
               \A i \in 1..Len(express.ignoreBots) :
                   toLowerCase(express.returned[1].name)
                   # toLowerCase(express.ignoreBots[i])
        /\ express.userAgent = <<>> => express.returned = <<>>

\* GPTBot is ignored in lower case and the header holds GPTBot and a custom
\* bot: the known crawler is passed over and the custom bot is returned.
C22_Witness ==
    /\ express # <<>>
    /\ express.called
    /\ express.userAgent = <<"GPTBot", "MyCustomBot">>
    /\ express.ignoreBots = <<"gptbot">>
    /\ express.returned # <<>>
    /\ express.returned[1].name = "MyCustomBot"

\* The positions of the chain, already run, where the optimizing middleware
\* stood behind a detecting middleware that found a bot.
RanAsBot ==
    {i \in 1..(express.pc - 1) :
        /\ i <= Len(express.chain)
        /\ express.chain[i] = "aiOptimizeMiddleware"
        /\ detect(express.detector, express.req.userAgent) # <<>>
        /\ \E j \in 1..(i - 1) : express.chain[j] = "aiDetectorMiddleware"}

\* C23: optimizeResponseForAI rewrites a body only if req.isAIBot was true
\* when it ran for the request: for a human visitor, and for a bot when the
\* middleware is mounted before createAIMiddleware, res.send stays
\* unpatched and the body that is sent is the body of the handler; and
\* each middleware that ran has called next() exactly once.
C23_OptimizeNeedsBot ==
    /\ RanAsBot = {} =>
           /\ express.res.patches = 0
           /\ express.res.sent # <<>> => express.res.sent[1] = express.body
    /\ (express.res.sent # <<>> /\ express.res.sent[1] # express.body)
           => RanAsBot # {}
    /\ \A i \in 1..Len(express.chain) :
           express.nextCalls[i] = IF i < express.pc THEN 1 ELSE 0

\* GPTBot asks for an HTML page with scripts while the optimizing
\* middleware is mounted before the detecting one: the request is marked
\* as a bot, and the page is sent as the handler wrote it.
C23_Witness ==
    /\ express # <<>>
    /\ "chain" \in DOMAIN express
    /\ express.chain = <<"aiOptimizeMiddleware", "aiDetectorMiddleware">>
    /\ express.req.isAIBot
    /\ express.body = Body(TRUE, TRUE, TRUE, 2)
    /\ express.stripJs
    /\ express.res.contentType = "text/html"
    /\ express.res.sent = <<express.body>>

\* The last n elements of a sequence, all of it when it is shorter.
LastN(s, n) == SubSeq(s, Max(Len(s) - n, 0) + 1, Len(s))

\* C24: with storage 'memory' or 'both', after any sequence of log() calls
\* the buffer holds at most maxMemoryEntries entries, for every configured
\* maxMemoryEntries >= 0, and they are the most recently logged entries in
\* the order they were logged.
C24_MemoryBound ==
    logger.this.config.storage \in {"memory", "both"} =>
        /\ Len(logger.this.memoryLogs) <= logger.this.config.maxMemoryEntries
        /\ logger.this.memoryLogs
           = LastN(logger.logged, logger.this.config.maxMemoryEntries)


\* C25: with storage 'file' or 'both', an unfiltered getLogs() returns every
\* entry stored in the log file at the time of the call, whatever was logged
\* before and whatever the file held at construction, and a log() call
\* never makes the unfiltered result shorter than it was before.
C25_GetLogsReadsFile ==
    (logger.this.config.storage \in {"file", "both"} /\ logger.got # <<>>) =>
        /\ logger.since = 0 => logger.got[1] = logger.this.file.entries
        /\ logger.prevGot # <<>> =>
               Len(logger.got[1]) >= Len(logger.prevGot[1])


\* The first element of a sequence, as a sequence of at most one element.
FirstOf(s) == IF s = <<>> THEN <<>> ELSE <<s[1]>>

\* The paragraphs inside the first main/content container of the document.
ParasInContainer(dom) ==
    LET c == MainContent(dom)[1]
    IN SelectSeq(dom.elems, LAMBDA x : /\ x.n.tag = "p" /\ c.sub = 0
                                        /\ x.top = c.top /\ x.sub > 0)

\* The paragraphs that follow the first h1 in document order, wherever they
\* are nested.
ParasFollowing(dom) ==
    LET h == Select(dom, {"h1"})[1]
    IN SelectSeq(dom.elems,
                 LAMBDA x : /\ x.n.tag = "p"
                            /\ \/ x.top > h.top
                               \/ x.top = h.top /\ h.sub > 0 /\ x.sub > h.sub)

\* The paragraphs among the following siblings of the first h1.
ParasBeside(dom) ==
    LET h == Select(dom, {"h1"})[1]
    IN SelectSeq(dom.elems,
                 LAMBDA x : /\ x.n.tag = "p"
                            /\ IF h.sub = 0 THEN x.sub = 0 /\ x.top > h.top
                               ELSE x.top = h.top /\ x.sub > h.sub)

NoParagraphIssues ==
    CountIssues("answer-placement", "No substantive paragraph found after H1",
                "high")

\* The result of a call that got past the h1 test reports the paragraph p
\* (a sequence of at most one element) as the opening paragraph: the
\* selection yields it, and the high "No substantive paragraph" issue is
\* raised exactly when it is missing or shorter than 30 characters.
OpensWith(p) ==
    /\ FirstP(Load(html)) = p
    /\ NoParagraphIssues = Num(p = <<>> \/ p[1].n.core < 30)
    /\ NoParagraphIssues = 1 => result.breakdown.answerFrontLoading = 20

AnswerChecked ==
    /\ calls > 0
    /\ Truthy(options.checkAnswerPlacement)
    /\ Select(Load(html), {"h1"}) # <<>>

\* C26 as stated: with a main/content container the opening paragraph is the
\* first paragraph inside the first container, without a fallback; without
\* one it is the first paragraph that follows the first h1 in document order.
C26_DocumentOrder ==
    AnswerChecked =>
        LET dom == Load(html)
        IN OpensWith(FirstOf(IF MainContent(dom) # <<>>
                             THEN ParasInContainer(dom)
                             ELSE ParasFollowing(dom)))

\* C26: with a main/content container the opening paragraph is the first
\* paragraph inside the first container, and none when the container holds
\* no paragraph; without a container it is the first paragraph among the
\* following siblings of the first h1, so a paragraph that follows the h1
\* only at another nesting level is not picked.
C26_TwoBranchSelection ==
    AnswerChecked =>
        LET dom == Load(html)
        IN OpensWith(FirstOf(IF MainContent(dom) # <<>>
                             THEN ParasInContainer(dom)
                             ELSE ParasBeside(dom)))

\* A page without a container whose h1 is wrapped in a division: the
\* substantive paragraph after the division is not a sibling of the h1, and
\* the check reports that no paragraph was found.
C26_Witness ==
    /\ AnswerChecked
    /\ MainContent(Load(html)) = <<>>
    /\ ParasBeside(Load(html)) = <<>>
    /\ \E i \in 1..Len(ParasFollowing(Load(html))) :
           ParasFollowing(Load(html))[i].n.core >= 30
    /\ NoParagraphIssues = 1
    /\ result.breakdown.answerFrontLoading = 20


\* The entries of bot b among the entries a getStats() call selected.
VisitsOf(b) == SelectSeq(logger.selected[1], LAMBDA log : log.botName = b)

Successes(b) ==
    SelectSeq(VisitsOf(b),
              LAMBDA log : 200 <= log.statusCode /\ log.statusCode < 400)

RECURSIVE SumOver(_, _)
SumOver(f, S) ==
    IF S = {} THEN 0
    ELSE LET x == CHOOSE y \in S : TRUE IN f[x] + SumOver(f, S \ {x})

\* C27: for every bot key of getStats(), totalVisits is the number of
\* selected entries with that botName, successCount the number of those with
\* 200 <= statusCode < 400, successRate = round(100 * successCount /
\* totalVisits), a value in 0..100, uniqueUrlCount <= totalVisits, and the
\* totalVisits of all bots add up to the number of selected entries.
C27_Stats ==
    logger.stats # <<>> =>
        LET stats == logger.stats[1]
        IN /\ \A b \in DOMAIN stats :
                 /\ stats[b].totalVisits = Len(VisitsOf(b))
                 /\ stats[b].successCount = Len(Successes(b))
                 /\ stats[b].successRate
                    = Round(100 * stats[b].successCount, stats[b].totalVisits)
                 /\ stats[b].successRate \in 0..100
                 /\ stats[b].uniqueUrlCount <= stats[b].totalVisits
           /\ SumOver([b \in DOMAIN stats |-> stats[b].totalVisits],
                      DOMAIN stats)
              = Len(logger.selected[1])


\* The bound below which the entry of a check triggers its recommendation.
Threshold == [checkAnswerPlacement |-> 70, checkFactDensity |-> 60,
              checkHeadingStructure |-> 80, checkEEAT |-> 60,
              checkSnippability |-> 70, checkSchema |-> 50]

HighIssues == SelectSeq(result.issues, LAMBDA x : x.severity = "high")

Affirmed ==
    \E i \in 1..Len(result.recommendations) :
        result.recommendations[i] = "Great job"

\* C28: a result whose recommendations contain the well-optimized
\* affirmation holds no high-severity issue: every high-severity issue of a
\* result comes with a breakdown entry of its check below the bound of the
\* check's recommendation (answer placement 70, fact density 60, heading
\* structure 80, schema 50).
C28_AffirmedWithoutHigh ==
    calls > 0 =>
        /\ Affirmed => HighIssues = <<>>
        /\ \A i \in 1..Len(HighIssues) :
               /\ HighIssues[i].type \in {"answer-placement", "fact-density",
                                          "heading-structure", "schema"}
               /\ ScoreOf(result.breakdown, FlagOf(HighIssues[i].type))
                  < Threshold[FlagOf(HighIssues[i].type)]

\* The affirmation is given with all six checks enabled on a page that still
\* has issues, none of them high.
C28_Witness ==
    /\ calls > 0
    /\ AllEnabled
    /\ Affirmed
    /\ result.issues # <<>>
    /\ HighIssues = <<>>


\* C29: for every enabled check, a result without an issue of the type of
\* the check holds the maximum of the check in the breakdown (95 for answer
\* placement and fact density, 100 for the others): an entry below the
\* maximum comes with at least one issue of its check.
C29_BelowMaxHasIssue ==
    calls > 0 =>
        \A k \in Flags :
            (Truthy(options[k]) /\ IssuesOfType(TypeOf[k]) = <<>>)
            => ScoreOf(result.breakdown, k) = MaxScore[k]


\* C30: with all six checks enabled the overall score is at most 98, since
\* answer placement and fact density return at most 95; a result has the
\* overall score 100 only if neither the answer-placement check nor the
\* fact-density check ran.
C30_OverallCeiling ==
    calls > 0 =>
        /\ Truthy(options.checkAnswerPlacement) =>
               result.breakdown.answerFrontLoading <= 95
        /\ Truthy(options.checkFactDensity) =>
               result.breakdown.factDensity <= 95
        /\ AllEnabled => result.overallScore <= 98
        /\ result.overallScore = 100 =>
               /\ ~Truthy(options.checkAnswerPlacement)
               /\ ~Truthy(options.checkFactDensity)

\* With all six checks enabled a page reaches the ceiling: 95 for the answer
\* and the facts, 100 for the four other checks, 98 overall.
C30_Witness ==
    /\ calls > 0
    /\ AllEnabled
    /\ result.overallScore = 98
    /\ result.breakdown.answerFrontLoading = 95
    /\ result.breakdown.factDensity = 95
    /\ \A k \in Flags \ {"checkAnswerPlacement", "checkFactDensity"} :
           ScoreOf(result.breakdown, k) = 100

=============================================================================
